---- MODULE Spec2Model ----
(***************************************************************************)
(* Verification model of the recognizers in src/predefined_recognizers:   *)
(* the overlap filter shared by the dictionary recognizers, their          *)
(* dictionary pass, the credit-card analyzer and the checksum validators.  *)
(* Positions are Python's 0-based offsets; a span is [start, end).         *)
(* Scores are held in hundredths (0.85 is 85).                             *)
(***************************************************************************)
EXTENDS Integers, Sequences, FiniteSets, TLC

VARIABLES
    recognizer,   \* the class whose method is being exercised
    pc,           \* position of the driver
    results,      \* the list passed to _filter_overlaps (sorted in place by the call)
    filtered,     \* the list _filter_overlaps returned
    refiltered,   \* the list returned when _filter_overlaps is given its own output
    text,         \* the text given to analyze()
    vocab,        \* the vocabulary the dictionary files supply
    entities,     \* the entity types requested from analyze()
    collected,    \* what analyze() collected before it built its return value
    returned,     \* the list analyze() returned
    candidate,    \* the string handed to the checksum validators
    verdicts,     \* validator name -> the boolean it returned
    idx,          \* how many characters the streaming loop has folded in
    remainder     \* the running remainder of the streaming loop

vars == <<recognizer, pc, results, filtered, refiltered,
          text, vocab, entities, collected, returned,
          candidate, verdicts, idx, remainder>>
filterVars == <<results, filtered, refiltered>>
analyzeVars == <<text, vocab, entities, collected, returned>>
checkVars == <<candidate, verdicts, idx, remainder>>

FilterIdle == results = <<>> /\ filtered = <<>> /\ refiltered = <<>>
AnalyzeIdle ==
    text = <<>> /\ vocab = <<>> /\ entities = {} /\ collected = <<>> /\ returned = <<>>
CheckIdle == candidate = <<>> /\ verdicts = <<>> /\ idx = 0 /\ remainder = 0

\* ---------------------------------------------------------------- helpers
Min(a, b) == IF a <= b THEN a ELSE b
Max(a, b) == IF a >= b THEN a ELSE b
Range(s) == {s[i] : i \in 1..Len(s)}

\* ============================================================ text and re
\* A text is a sequence of one-character strings.
Digits == {"0", "1", "2", "3", "4", "5", "6", "7", "8", "9"}
UpperLetters ==
    {"A", "B", "C", "D", "E", "F", "G", "H", "I", "J", "K", "L", "M",
     "N", "O", "P", "Q", "R", "S", "T", "U", "V", "W", "X", "Y", "Z"}
LowerLetters ==
    {"a", "b", "c", "d", "e", "f", "g", "h", "i", "j", "k", "l", "m",
     "n", "o", "p", "q", "r", "s", "t", "u", "v", "w", "x", "y", "z"}
\* U+0130, LATIN CAPITAL LETTER I WITH DOT ABOVE: one character whose lower()
\* is the two characters "i" and U+0307 (COMBINING DOT ABOVE)
CapitalIDot == "I-dot"
CombiningDot == "dot-above"
\* \w of the re module (str patterns): letters, digits and the underscore
WordChars == Digits \cup UpperLetters \cup LowerLetters \cup {"_", CapitalIDot}
\* \s of the re module
SpaceChars == {" "}

\* text[i:j] for 0 <= i: both ends clamp to the text
Slice(tx, i, j) == SubSeq(tx, i + 1, Min(j, Len(tx)))

UpperSeq ==
    <<"A", "B", "C", "D", "E", "F", "G", "H", "I", "J", "K", "L", "M",
      "N", "O", "P", "Q", "R", "S", "T", "U", "V", "W", "X", "Y", "Z">>
LowerSeq ==
    <<"a", "b", "c", "d", "e", "f", "g", "h", "i", "j", "k", "l", "m",
      "n", "o", "p", "q", "r", "s", "t", "u", "v", "w", "x", "y", "z">>
DigitSeq == <<"0", "1", "2", "3", "4", "5", "6", "7", "8", "9">>

\* str.lower() of one character: it may yield more than one character
LowerChar(c) ==
    IF c \in UpperLetters THEN <<LowerSeq[CHOOSE i \in 1..26 : UpperSeq[i] = c]>>
    ELSE IF c = CapitalIDot THEN <<"i", CombiningDot>>
    ELSE <<c>>

RECURSIVE Lower(_)
\* the text is lowered half by half
Lower(tx) ==
    IF tx = <<>> THEN <<>>
    ELSE IF Len(tx) = 1 THEN LowerChar(tx[1])
    ELSE LET half == Len(tx) \div 2
         IN  Lower(SubSeq(tx, 1, half)) \o Lower(SubSeq(tx, half + 1, Len(tx)))

\* int(digit)
DigitValue(c) == CHOOSE d \in 0..9 : DigitSeq[d + 1] = c

\* term in text
Contains(term, tx) ==
    \E i \in 0..(Len(tx) - Len(term)) : SubSeq(tx, i + 1, i + Len(term)) = term

\* any(term in text for term in terms)
AnyIn(terms, tx) == \E k \in 1..Len(terms) : Contains(terms[k], tx)

\* str.isdigit()
IsDigit(cs) == cs # <<>> /\ \A i \in 1..Len(cs) : cs[i] \in Digits

RECURSIVE Concat(_)
Concat(ss) == IF ss = <<>> THEN <<>> ELSE Head(ss) \o Concat(Tail(ss))

RECURSIVE JoinWith(_, _)
JoinWith(sep, ss) ==
    IF ss = <<>> THEN <<>>
    ELSE IF Len(ss) = 1 THEN ss[1]
    ELSE ss[1] \o sep \o JoinWith(sep, Tail(ss))


\* pattern nodes: a character class, a concatenation, an alternation, a bounded
\* repetition (hi = -1: unbounded; lazy: the shortest repetition is tried first),
\* the word boundary \b and the line anchors
Cls(S) == [t |-> "cls", s |-> S]
Cat(xs) == [t |-> "cat", xs |-> xs]
Alt(xs) == [t |-> "alt", xs |-> xs]
Rep(x, lo, hi) == [t |-> "rep", x |-> x, lo |-> lo, hi |-> hi, lazy |-> FALSE]
RepLazy(x, lo, hi) == [t |-> "rep", x |-> x, lo |-> lo, hi |-> hi, lazy |-> TRUE]
WordBoundary == [t |-> "wb"]
\* ^ and $ under re.MULTILINE
AtStart == [t |-> "bol"]
AtEnd == [t |-> "eol"]
\* the negative lookahead (?!x)
NotAhead(x) == [t |-> "nla", x |-> x]
Opt(x) == Rep(x, 0, 1)
Lit(cs) == Cat([i \in 1..Len(cs) |-> Cls({cs[i]})])
\* a literal under re.IGNORECASE: a character matches what lower-cases to the same
\* letter ("i" also matches U+0130)
CaseVariants(c) ==
    IF c \in UpperLetters \cup LowerLetters
    THEN {x \in UpperLetters \cup LowerLetters : LowerChar(x) = LowerChar(c)}
         \cup (IF c \in {"i", "I"} THEN {CapitalIDot} ELSE {})
    ELSE {c}
LitI(cs) == Cat([i \in 1..Len(cs) |-> Cls(CaseVariants(cs[i]))])
D(n) == Rep(Cls(Digits), n, n)

\* \b at offset p: exactly one side of p is a word character
AtWordBoundary(tx, p) ==
    (p > 0 /\ tx[p] \in WordChars) # (p < Len(tx) /\ tx[p + 1] \in WordChars)

\* a repetition of one character class has one path for each count: the run of
\* characters of the class at p is measured, and the ends are the counts from
\* the longest allowed down to lo (from lo up when lazy)
ClassRepEnds(n, tx, p) ==
    LET most == IF n.hi = -1 THEN Len(tx) - p ELSE Min(n.hi, Len(tx) - p)
        runs == {c \in 0..most : \A i \in 1..c : tx[p + i] \in n.x.s}
        run == CHOOSE c \in runs : \A d \in runs : d <= c
    IN  IF run < n.lo THEN <<>>
        ELSE [k \in 1..(run - n.lo + 1) |->
                 IF n.lazy THEN p + n.lo + k - 1 ELSE p + run - k + 1]

\* The ends, in the order a backtracking matcher tries them, of the matches of
\* node n that start at offset p.
RECURSIVE Ends(_, _, _)
RECURSIVE CatEnds(_, _, _, _)
RECURSIVE CatOver(_, _, _, _, _)
RECURSIVE AltEnds(_, _, _, _)
RECURSIVE RepEnds(_, _, _, _)
RECURSIVE RepOver(_, _, _, _, _)

Ends(n, tx, p) ==
    CASE n.t = "cls" -> IF p < Len(tx) /\ tx[p + 1] \in n.s THEN <<p + 1>> ELSE <<>>
      [] n.t = "wb"  -> IF AtWordBoundary(tx, p) THEN <<p>> ELSE <<>>
      [] n.t = "bol" -> IF p = 0 \/ tx[p] = "\n" THEN <<p>> ELSE <<>>
      [] n.t = "eol" -> IF p = Len(tx) \/ tx[p + 1] = "\n" THEN <<p>> ELSE <<>>
      [] n.t = "nla" -> IF Ends(n.x, tx, p) = <<>> THEN <<p>> ELSE <<>>
      [] n.t = "cat" -> CatEnds(n.xs, 1, tx, p)
      [] n.t = "alt" -> AltEnds(n.xs, 1, tx, p)
      [] n.t = "rep" -> IF n.x.t = "cls" THEN ClassRepEnds(n, tx, p) ELSE RepEnds(n, 0, tx, p)

CatEnds(xs, i, tx, p) ==
    IF i > Len(xs) THEN <<p>>
    ELSE CatOver(Ends(xs[i], tx, p), 1, xs, i, tx)

CatOver(es, k, xs, i, tx) ==
    IF k > Len(es) THEN <<>>
    ELSE CatEnds(xs, i + 1, tx, es[k]) \o CatOver(es, k + 1, xs, i, tx)

AltEnds(xs, i, tx, p) ==
    IF i > Len(xs) THEN <<>>
    ELSE Ends(xs[i], tx, p) \o AltEnds(xs, i + 1, tx, p)

RepEnds(n, c, tx, p) ==
    LET more == IF n.hi = -1 \/ c < n.hi
                THEN RepOver(Ends(n.x, tx, p), 1, n, c, tx)
                ELSE <<>>
        stop == IF c >= n.lo THEN <<p>> ELSE <<>>
    IN  IF n.lazy THEN stop \o more ELSE more \o stop

RepOver(es, k, n, c, tx) ==
    IF k > Len(es) THEN <<>>
    ELSE RepEnds(n, c + 1, tx, es[k]) \o RepOver(es, k + 1, n, c, tx)

\* re.finditer(pattern, text): the non-overlapping matches, leftmost first, each
\* the first one the matcher finds at its start; the scan resumes at the end of
\* the match (patterns here never match the empty string)
RECURSIVE FindFrom(_, _, _)
FindFrom(re, tx, p) ==
    IF p > Len(tx) THEN <<>>
    ELSE LET es == Ends(re, tx, p) IN
         IF es = <<>> THEN FindFrom(re, tx, p + 1)
         ELSE <<[start |-> p, end |-> es[1]]>>
              \o FindFrom(re, tx, IF es[1] > p THEN es[1] ELSE p + 1)

finditer(re, tx) == FindFrom(re, tx, 0)

\* ============================================================ overlap filter
MaxPos == 2
MaxResults == 3

\* the scores the recognizers attach: 0.7 (name / long description) and 1.0 (term / code)
Scores == {70, 100}

FilterRecognizers ==
    {"ICD10Recognizer", "LowThresholdHIPAARecognizer",
     "HipaaRegRecognizer", "HIPAAHITECHMEDIUMRecognizer"}

\* last_end before the loop: 0 in ICD10Recognizer, -1 in the other three
InitialLastEnd(r) == IF r = "ICD10Recognizer" THEN 0 ELSE -1

\* a slip in the key: score ascending instead of descending
KeyLessScoreAscending(a, b) ==
    \/ a.start < b.start
    \/ a.start = b.start /\ a.score < b.score

\* key=lambda x: (x.start, -x.score), compared as Python compares tuples
KeyLess(a, b) ==
    \/ a.start < b.start
    \/ a.start = b.start /\ (0 - a.score) < (0 - b.score)

\* list.sort is stable: x goes after every element whose key is not greater
RECURSIVE InsertByKey(_, _)
InsertByKey(x, s) ==
    IF s = <<>> THEN <<x>>
    ELSE IF KeyLess(x, Head(s)) THEN <<x>> \o s
    ELSE <<Head(s)>> \o InsertByKey(x, Tail(s))

RECURSIVE SortResults(_)
SortResults(rs) ==
    IF rs = <<>> THEN <<>>
    ELSE InsertByKey(rs[Len(rs)], SortResults(SubSeq(rs, 1, Len(rs) - 1)))

\* a slip in the comparison: a result may start one before last_end
AcceptsOneEarly(res, last_end) == res.start + 1 >= last_end

\* a slip in the comparison: the result's end is compared instead of its start
AcceptsByEnd(res, last_end) == res.end >= last_end

\* if res.start >= last_end: filtered.append(res); last_end = res.end
Accepts(res, last_end) == res.start >= last_end

\* a slip in the loop body: last_end is assigned outside the if
RECURSIVE FilterLoopTracksRejected(_, _, _)
FilterLoopTracksRejected(rs, acc, last_end) ==
    IF rs = <<>> THEN acc
    ELSE LET res == Head(rs) IN
         IF res.start >= last_end
         THEN FilterLoopTracksRejected(Tail(rs), Append(acc, res), res.end)
         ELSE FilterLoopTracksRejected(Tail(rs), acc, res.end)

RECURSIVE FilterLoop(_, _, _)
FilterLoop(rs, acc, last_end) ==
    IF rs = <<>> THEN acc
    ELSE LET res == Head(rs) IN
         IF Accepts(res, last_end)
         THEN FilterLoop(Tail(rs), Append(acc, res), res.end)
         ELSE FilterLoop(Tail(rs), acc, last_end)

filter_overlaps(r, rs) == FilterLoop(SortResults(rs), <<>>, InitialLastEnd(r))

Spans == {sp \in (0..MaxPos) \X (0..MaxPos) : sp[1] <= sp[2]}

\* a RecognizerResult; id stands for the object's identity
ResultValues == [start : 0..MaxPos, end : 0..MaxPos, score : Scores]

RECURSIVE ListsUpTo(_, _)
ListsUpTo(S, n) ==
    IF n = 0 THEN {<<>>}
    ELSE LET shorter == ListsUpTo(S, n - 1) IN
         shorter \cup {Append(l, x) : l \in {m \in shorter : Len(m) = n - 1}, x \in S}

WithIds(l) == [i \in 1..Len(l) |-> [start |-> l[i].start, end |-> l[i].end,
                                     score |-> l[i].score, id |-> i]]

InputLists ==
    {WithIds(l) : l \in ListsUpTo({v \in ResultValues : v.start <= v.end}, MaxResults)}

InitOverlap ==
    /\ recognizer \in FilterRecognizers
    /\ results \in InputLists
    /\ filtered = <<>>
    /\ refiltered = <<>>
    /\ pc = "start"
    /\ AnalyzeIdle
    /\ CheckIdle

\* return self._filter_overlaps(results)
CallFilter ==
    /\ pc = "start"
    /\ filtered' = filter_overlaps(recognizer, results)
    /\ results' = SortResults(results)
    /\ pc' = "filtered"
    /\ UNCHANGED <<recognizer, refiltered, analyzeVars, checkVars>>

\* the resolver applied to its own output
CallFilterAgain ==
    /\ pc = "filtered"
    /\ refiltered' = filter_overlaps(recognizer, filtered)
    /\ pc' = "refiltered"
    /\ UNCHANGED <<recognizer, results, filtered, analyzeVars, checkVars>>

NextOverlap == CallFilter \/ CallFilterAgain

SpecOverlap == InitOverlap /\ [][NextOverlap]_vars

\* ------------------------------------------------------------ claims C1..C4
Overlap(a, b) == ~(a.end <= b.start \/ b.end <= a.start)
Ids(rs) == {rs[i].id : i \in 1..Len(rs)}
Returned == pc \in {"filtered", "refiltered"}

\* C1: the list returned by _filter_overlaps is pairwise non-overlapping: any two
\* distinct returned results i, j have i.end <= j.start or j.end <= i.start.
C1_PairwiseNonOverlapping ==
    Returned =>
        \A i, j \in 1..Len(filtered) :
            i # j => (filtered[i].end <= filtered[j].start
                      \/ filtered[j].end <= filtered[i].start)

\* a call that kept two results and discarded an overlapping third
C1_Witness ==
    /\ pc = "filtered"
    /\ Len(filtered) = 2
    /\ Len(results) = 3
    /\ \E k \in 1..3 : results[k].id \notin Ids(filtered) /\ Overlap(results[k], filtered[1])

\* C2: _filter_overlaps is idempotent: applied to its own output it returns the
\* same results in the same order (equal starts, equal scores and zero-length
\* spans included).
C2_Idempotent == pc = "refiltered" => refiltered = filtered

\* the output re-filtered held a zero-length span and two results of equal start
C2_Witness ==
    /\ pc = "refiltered"
    /\ Len(filtered) >= 2
    /\ Len(filtered) < Len(results)
    /\ \E i, j \in 1..Len(filtered) :
          /\ i < j
          /\ filtered[i].start = filtered[j].start
          /\ filtered[i].end = filtered[i].start

\* the end of the last result accepted before position k of the sorted list
LastAcceptedEnd(k) ==
    LET before == {i \in 1..(k - 1) : results[i].id \in Ids(filtered)} IN
    IF before = {} THEN InitialLastEnd(recognizer)
    ELSE results[CHOOSE i \in before : \A m \in before : m <= i].end

\* C3: _filter_overlaps is the greedy earliest-start scheduler: candidates are
\* ordered by (start ascending, score descending), a candidate is accepted iff
\* its start >= the end of the last accepted candidate, and so a candidate A
\* that starts strictly before an overlapping B and clears the last accepted
\* candidate is kept while B is discarded, whatever B's score.
C3_GreedyEarliestStart ==
    Returned =>
        /\ \A i, j \in 1..Len(results) :
              i < j => \/ results[i].start < results[j].start
                       \/ /\ results[i].start = results[j].start
                          /\ results[i].score >= results[j].score
        /\ \A k \in 1..Len(results) :
              results[k].id \in Ids(filtered) <=> results[k].start >= LastAcceptedEnd(k)
        /\ \A a, b \in 1..Len(results) :
              (/\ results[a].start < results[b].start
               /\ Overlap(results[a], results[b])
               /\ results[a].start >= LastAcceptedEnd(a))
              => (results[a].id \in Ids(filtered) /\ results[b].id \notin Ids(filtered))

\* P accepted, then A kept and the strictly higher-scoring overlapping B discarded
C3_Witness ==
    /\ pc = "filtered"
    /\ \E p, a, b \in 1..Len(results) :
          /\ p < a /\ a < b
          /\ results[p].id \in Ids(filtered)
          /\ results[a].id \in Ids(filtered)
          /\ results[b].id \notin Ids(filtered)
          /\ results[a].start < results[b].start
          /\ Overlap(results[a], results[b])
          /\ results[b].score > results[a].score

\* C4: LowThresholdHIPAARecognizer._filter_overlaps keeps the highest-scoring of
\* overlapping results: of two overlapping input results with different scores,
\* the lower-scoring one is never kept while the higher-scoring one is discarded.
C4_HighestScoreKept ==
    (pc = "filtered" /\ recognizer = "LowThresholdHIPAARecognizer") =>
        \A x, y \in 1..Len(results) :
            (Overlap(results[x], results[y]) /\ results[x].score < results[y].score)
            => ~(results[x].id \in Ids(filtered) /\ results[y].id \notin Ids(filtered))

\* ============================================================ AllCreditCardNumberRecognizer
LUHN_CARD_TYPES ==
    {"American Express", "Diner's Club", "Discover", "JCB", "Mastercard", "VISA"}

Sep == Opt(Cls({" ", "-"}))

\* PATTERNS, in the order the dict lists them
PATTERNS ==
    <<
      [card_type |-> "American Express",
       regex |-> Cat(<<WordBoundary, Lit(<<"3">>), Cls({"4", "7"}), D(2), Sep, D(6), Sep, D(5), WordBoundary>>)],
      [card_type |-> "American Express",
       regex |-> Cat(<<WordBoundary, Lit(<<"3">>), Cls({"4", "7"}), D(13), WordBoundary>>)],
      [card_type |-> "China UnionPay",
       regex |-> Cat(<<WordBoundary, Lit(<<"6", "2">>), Rep(Cls(Digits), 14, 17), WordBoundary>>)],
      [card_type |-> "China UnionPay",
       regex |-> Cat(<<WordBoundary, Lit(<<"6">>), Alt(<<Cat(<<Lit(<<"2">>), Cls({"2", "3", "4", "5", "6", "7", "8"})>>), Lit(<<"0", "3", "6", "0", "1">>), Lit(<<"0", "3", "2", "6", "5">>), Lit(<<"2", "1", "9", "7", "7">>), Lit(<<"0", "3", "7", "0", "8">>), Lit(<<"0", "2", "9", "6", "9">>), Lit(<<"0", "1", "4", "2", "8">>), Lit(<<"0", "3", "3", "6", "7">>), Lit(<<"0", "3", "6", "9", "4">>)>>), Rep(Cls(Digits), 10, 13), WordBoundary>>)],
      [card_type |-> "China UnionPay",
       regex |-> Cat(<<WordBoundary, Lit(<<"6", "2">>), D(2), Sep, D(4), Sep, D(4), Sep, Rep(Cls(Digits), 4, 7), WordBoundary>>)],
      [card_type |-> "Diner's Club",
       regex |-> Cat(<<WordBoundary, Lit(<<"3">>), Alt(<<Cat(<<Lit(<<"0">>), Cls({"0", "1", "2", "3", "4", "5"})>>), Cat(<<Cls({"6", "8", "9"}), Cls(Digits)>>)>>), D(11), WordBoundary>>)],
      [card_type |-> "Diner's Club",
       regex |-> Cat(<<WordBoundary, Lit(<<"3">>), Cls({"6", "8", "9"}), D(2), Sep, D(6), Sep, D(4), WordBoundary>>)],
      [card_type |-> "Discover",
       regex |-> Cat(<<WordBoundary, Lit(<<"6">>), Alt(<<Lit(<<"0", "1", "1">>), Cat(<<Lit(<<"4">>), Cls({"4", "5", "6", "7", "8", "9"}), Cls(Digits)>>), Cat(<<Lit(<<"5">>), D(2)>>)>>), Sep, D(4), Sep, D(4), Sep, D(4), WordBoundary>>)],
      [card_type |-> "Discover",
       regex |-> Cat(<<WordBoundary, Lit(<<"6">>), Alt(<<Lit(<<"0", "1", "1">>), Cat(<<Lit(<<"4">>), Cls({"4", "5", "6", "7", "8", "9"}), Cls(Digits)>>), Cat(<<Lit(<<"5">>), D(2)>>)>>), D(12), WordBoundary>>)],
      [card_type |-> "JCB",
       regex |-> Cat(<<WordBoundary, Lit(<<"3", "5">>), Cls({"2", "3", "4", "5", "6", "7", "8"}), D(2), Sep, D(4), Sep, D(4), Sep, D(4), WordBoundary>>)],
      [card_type |-> "JCB",
       regex |-> Cat(<<WordBoundary, Lit(<<"3", "5">>), Cls({"2", "3", "4", "5", "6", "7", "8"}), D(12), WordBoundary>>)],
      [card_type |-> "Kohl's",
       regex |-> Cat(<<WordBoundary, Lit(<<"4", "3", "9">>), Cls({"1", "2", "3", "4", "5", "6", "7", "8", "9"}), D(2), Sep, D(4), Sep, D(4), Sep, D(4), WordBoundary>>)],
      [card_type |-> "Kohl's",
       regex |-> Cat(<<WordBoundary, Lit(<<"4", "3", "9">>), Cls({"1", "2", "3", "4", "5", "6", "7", "8", "9"}), D(12), WordBoundary>>)],
      [card_type |-> "Mastercard",
       regex |-> Cat(<<WordBoundary, Lit(<<"5">>), Cls({"1", "2", "3", "4", "5"}), D(2), Sep, D(4), Sep, D(4), Sep, D(4), WordBoundary>>)],
      [card_type |-> "Mastercard",
       regex |-> Cat(<<WordBoundary, Lit(<<"2">>), Cls({"2", "3", "4", "5", "6", "7"}), D(2), Sep, D(4), Sep, D(4), Sep, D(4), WordBoundary>>)],
      [card_type |-> "Mastercard",
       regex |-> Cat(<<WordBoundary, Alt(<<Cat(<<Lit(<<"5">>), Cls({"1", "2", "3", "4", "5"})>>), Cat(<<Lit(<<"2">>), Cls({"2", "3", "4", "5", "6", "7"})>>)>>), D(14), WordBoundary>>)],
      [card_type |-> "VISA",
       regex |-> Cat(<<WordBoundary, Lit(<<"4">>), D(3), Sep, D(4), Sep, D(4), Sep, D(4), WordBoundary>>)],
      [card_type |-> "VISA",
       regex |-> Cat(<<WordBoundary, Lit(<<"4">>), D(12), Opt(D(3)), WordBoundary>>)],
      [card_type |-> "Generic Credit Card",
       regex |-> Cat(<<WordBoundary, Rep(Cat(<<Cls(Digits), RepLazy(Cls({" ", "-"}), 0, -1)>>), 13, 19), WordBoundary>>)]
    >>

\* CC_NAME_TERMS
CC_NAME_TERMS ==
    <<<<"c", "r", "e", "d", "i", "t", " ", "c", "a", "r", "d">>,
      <<"c", "a", "r", "d", " ", "n", "u", "m", "b", "e", "r">>,
      <<"C", "C", "N">>,
      <<"c", "c", "n", "u", "m">>,
      <<"c", "c", " ", "n", "u", "m">>,
      <<"c", "a", "r", "d", " ", "i", "d", "e", "n", "t", "i", "f", "i", "c", "a", "t", "i", "o", "n", " ", "n", "u", "m", "b", "e", "r">>,
      <<"c", "r", "e", "d", "i", "t", "c", "a", "r", "d">>,
      <<"c", "c", "#">>,
      <<"c", "c", " ", "#">>,
      <<"c", "a", "r", "d", " ", "n", "o">>,
      <<"c", "a", "r", "d", " ", "#">>,
      <<"c", "r", "e", "d", "i", "t", " ", "c", "a", "r", "d", " ", "n", "o">>,
      <<"c", "a", "r", "d", " ", "d", "e", "t", "a", "i", "l", "s">>,
      <<"p", "a", "y", "m", "e", "n", "t", " ", "c", "a", "r", "d">>,
      <<"b", "a", "n", "k", " ", "c", "a", "r", "d">>,
      <<"c", "a", "r", "d", " ", "i", "n", "f", "o", "r", "m", "a", "t", "i", "o", "n">>,
      <<"c", "c", " ", "d", "e", "t", "a", "i", "l", "s">>,
      <<"c", "r", "e", "d", "i", "t", " ", "c", "a", "r", "d", " ", "i", "n", "f", "o", "r", "m", "a", "t", "i", "o", "n">>>>

\* VERIFICATION_TERMS
VERIFICATION_TERMS ==
    <<<<"c", "a", "r", "d", " ", "v", "e", "r", "i", "f", "i", "c", "a", "t", "i", "o", "n">>,
      <<"c", "v", "n">>,
      <<"c", "i", "d">>,
      <<"c", "s", "c">>,
      <<"c", "v", "c", "2">>,
      <<"c", "v", "v", "2">>,
      <<"p", "i", "n", " ", "b", "l", "o", "c", "k">>,
      <<"s", "e", "c", "u", "r", "i", "t", "y", " ", "c", "o", "d", "e">>,
      <<"s", "e", "c", "u", "r", "i", "t", "y", " ", "n", "u", "m", "b", "e", "r">>,
      <<"v", "e", "r", "i", "f", "i", "c", "a", "t", "i", "o", "n", " ", "c", "o", "d", "e">>,
      <<"c", "v", "v">>,
      <<"c", "v", "c">>,
      <<"c", "v", "2">>,
      <<"c", "i", "d", " ", "n", "u", "m", "b", "e", "r">>,
      <<"c", "a", "r", "d", " ", "c", "o", "d", "e">>,
      <<"c", "c", "v">>>>

\* CARD_BRAND_TERMS
CARD_BRAND_TERMS ==
    <<<<"v", "i", "s", "a">>,
      <<"m", "a", "s", "t", "e", "r", "c", "a", "r", "d">>,
      <<"a", "m", "e", "x">>,
      <<"a", "m", "e", "r", "i", "c", "a", "n", " ", "e", "x", "p", "r", "e", "s", "s">>,
      <<"d", "i", "s", "c", "o", "v", "e", "r">>,
      <<"d", "i", "n", "e", "r", "s", " ", "c", "l", "u", "b">>,
      <<"j", "c", "b">>,
      <<"c", "h", "i", "n", "a", " ", "u", "n", "i", "o", "n", "p", "a", "y">>,
      <<"u", "n", "i", "o", "n", "p", "a", "y">>,
      <<"k", "o", "h", "l", "'", "s">>,
      <<"k", "o", "h", "l", "s">>,
      <<"m", "c">>,
      <<"m", "a", "s", "t", "e", "r", " ", "c", "a", "r", "d">>,
      <<"m", "a", "e", "s", "t", "r", "o">>,
      <<"c", "i", "r", "r", "u", "s">>,
      <<"p", "a", "y", "p", "a", "l">>,
      <<"d", "i", "s", "c", "o", "v", "e", "r", " ", "c", "a", "r", "d">>,
      <<"d", "i", "n", "e", "r", "s">>,
      <<"j", "c", "b", " ", "c", "a", "r", "d">>,
      <<"u", "n", "i", "o", "n", " ", "p", "a", "y">>>>

\* DATE_REGEX
DATE_REGEX ==
    Cat(<<WordBoundary, Alt(<<Cat(<<Lit(<<"0">>), Cls({"1", "2", "3", "4", "5", "6", "7", "8", "9"})>>), Cat(<<Lit(<<"1">>), Cls({"0", "1", "2"})>>)>>), Cls({"-", "/"}), Alt(<<D(2), D(4)>>), WordBoundary>>)

Reverse(s) == [i \in 1..Len(s) |-> s[Len(s) + 1 - i]]

\* for i, digit in enumerate(reverse_digits): double at odd i, minus 9 above 9
RECURSIVE LuhnCheckTotal(_, _)
LuhnCheckTotal(reverse_digits, i) ==
    IF i >= Len(reverse_digits) THEN 0
    ELSE LET num == DigitValue(reverse_digits[i + 1])
             doubled == IF num * 2 > 9 THEN num * 2 - 9 ELSE num * 2
         IN  (IF i % 2 = 1 THEN doubled ELSE num) + LuhnCheckTotal(reverse_digits, i + 1)

luhn_check(card_number) == LuhnCheckTotal(Reverse(card_number), 0) % 10 = 0

\* IGNORED_PATTERNS is empty
is_ignored(card_type, clean_number) == FALSE

valid_card(card_type, card_number) ==
    IF card_type \notin LUHN_CARD_TYPES THEN TRUE
    ELSE LET clean_number == SelectSeq(card_number, LAMBDA c : c \notin SpaceChars \cup {"-"})
         IN  IsDigit(clean_number) /\ luhn_check(clean_number)

calculate_score(tx) ==
    LET context_text == Lower(tx)
        has_name_term == AnyIn(CC_NAME_TERMS, context_text)
        has_verif_term == AnyIn(VERIFICATION_TERMS, context_text)
        has_brand_term == AnyIn(CARD_BRAND_TERMS, context_text)
        has_date == finditer(DATE_REGEX, context_text) # <<>>
        has_card_keyword ==
            AnyIn(<<<<"c", "a", "r", "d">>, <<"c", "c">>, <<"c", "r", "e", "d", "i", "t">>,
                    <<"p", "a", "y", "m", "e", "n", "t">>>>, context_text)
        has_number_keyword ==
            AnyIn(<<<<"n", "u", "m", "b", "e", "r">>, <<"n", "u", "m">>, <<"n", "o">>,
                    <<"#">>, <<"d", "i", "g", "i", "t", "s">>>>, context_text)
    IN  IF has_name_term /\ has_verif_term /\ has_date THEN 100
        ELSE IF has_name_term \/ has_brand_term \/ has_verif_term THEN 80
        ELSE IF has_card_keyword /\ has_number_keyword THEN 80
        ELSE IF has_card_keyword \/ has_number_keyword THEN 75
        ELSE 70

\* the matches one pattern contributes: (start, end, card_type, clean_number)
PatternMatches(pat, tx) ==
    LET ms == finditer(pat.regex, tx)
        row(m) == [start |-> m.start, end |-> m.end, card_type |-> pat.card_type,
                   clean_number |-> SelectSeq(Slice(tx, m.start, m.end),
                                              LAMBDA c : c \in Digits)]
        kept(r) == ~is_ignored(r.card_type, r.clean_number)
                   /\ valid_card(r.card_type, r.clean_number)
    IN  SelectSeq([k \in 1..Len(ms) |-> row(ms[k])], kept)

\* first pass of analyze: every pattern of every card type over the same text
CardMatches(tx) == Concat([k \in 1..Len(PATTERNS) |-> PatternMatches(PATTERNS[k], tx)])

\* second pass of analyze: one result per match, boosted when there are several
CardResults(tx, matches) ==
    LET base_score == IF matches # <<>> THEN calculate_score(tx) ELSE 0
        n_matches == Len(matches)
        score == IF n_matches >= 2 THEN Min(100, base_score + 20) ELSE base_score
    IN  [k \in 1..Len(matches) |->
            [entity_type |-> "CREDIT_CARD", start |-> matches[k].start,
             end |-> matches[k].end, score |-> score]]

MaxCardTokens == 2

\* what a text is put together from: card numbers and context words
CardTokens ==
    {<<"4", "5", "3", "2", "0", "1", "5", "1", "1", "2", "8", "3", "0", "3", "6", "6">>,
     <<"4", "5", "3", "2", "0", "1", "5", "1", "1", "2", "8", "3", "0", "3", "6", "7">>,
     <<"4", "5", "3", "2", " ", "0", "1", "5", "1", " ", "1", "2", "8", "3", " ", "0", "3", "6", "6">>,
     <<"3", "7", "8", "2", "8", "2", "2", "4", "6", "3", "1", "0", "0", "0", "5">>,
     <<"6", "2", "1", "2", "3", "4", "5", "6", "7", "8", "9", "0", "1", "2", "3", "4">>,
     <<"5", "5", "5", "5", "5", "5", "5", "5", "5", "5", "5", "5", "4", "4", "4", "4">>,
     <<"c", "a", "r", "d", " ", "n", "u", "m", "b", "e", "r">>,
     <<"c", "v", "v", " ", "1", "2", "/", "2", "5">>,
     <<"P", "I", "N">>}

CardTexts == {JoinWith(<<" ">>, l) : l \in ListsUpTo(CardTokens, MaxCardTokens)}

InitCard ==
    /\ recognizer = "AllCreditCardNumberRecognizer"
    /\ pc = "start"
    /\ text \in CardTexts
    /\ vocab = <<>>
    /\ entities = {"CREDIT_CARD"}
    /\ collected = <<>>
    /\ returned = <<>>
    /\ FilterIdle
    /\ CheckIdle

\* AllCreditCardNumberRecognizer.analyze(text, entities)
AnalyzeCards ==
    /\ pc = "start"
    /\ recognizer = "AllCreditCardNumberRecognizer"
    /\ LET matches == CardMatches(text) IN
         /\ collected' = matches
         /\ returned' = CardResults(text, matches)
    /\ pc' = "returned"
    /\ UNCHANGED <<recognizer, text, vocab, entities, filterVars, checkVars>>

NextCard == AnalyzeCards

SpecCard == InitCard /\ [][NextCard]_vars

\* ------------------------------------------------------------ claim C5
\* C5: the results returned by a single analyze() call have non-empty spans
\* (end > start) and are pairwise non-overlapping; in particular for
\* AllCreditCardNumberRecognizer.analyze, which collects the matches of every
\* pattern of every card type over the same text.
C5_ReturnedDisjointNonEmpty ==
    pc = "returned" =>
        /\ \A i \in 1..Len(returned) : returned[i].end > returned[i].start
        /\ \A i, j \in 1..Len(returned) :
              i # j => (returned[i].end <= returned[j].start
                        \/ returned[j].end <= returned[i].start)

\* ============================================================ dictionary recognizers
\* ICD10Recognizer, HipaaRegRecognizer, LowThresholdHIPAARecognizer and
\* HIPAAHITECHMEDIUMRecognizer: an Aho-Corasick automaton over the lower-cased
\* vocabulary, scanned over the lower-cased text, next to a few patterns.
\* A vocabulary is the rows the data files supply, each a (field, term) pair.

\* str.strip()
RECURSIVE StripLeft(_)
StripLeft(cs) ==
    IF cs # <<>> /\ Head(cs) \in SpaceChars THEN StripLeft(Tail(cs)) ELSE cs
Strip(cs) == Reverse(StripLeft(Reverse(StripLeft(cs))))

\* Automaton.add_word(key, value): the automaton maps a key to one value, a key
\* added again takes the new value
add_word(auto, key, value) ==
    IF \E i \in 1..Len(auto) : auto[i].key = key
    THEN [i \in 1..Len(auto) |->
            IF auto[i].key = key THEN [key |-> key, value |-> value] ELSE auto[i]]
    ELSE Append(auto, [key |-> key, value |-> value])

\* the keys that end at end_idx, longest first (the order of the output links)
RECURSIVE IterAt(_, _, _, _)
IterAt(auto, tx, end_idx, n) ==
    IF n = 0 THEN <<>>
    ELSE LET sub == SubSeq(tx, end_idx - n + 2, end_idx + 1)
             hit == {i \in 1..Len(auto) : auto[i].key = sub}
         IN  (IF hit # {}
              THEN <<[end |-> end_idx, key |-> sub,
                      value |-> auto[CHOOSE i \in hit : TRUE].value]>>
              ELSE <<>>)
             \o IterAt(auto, tx, end_idx, n - 1)

\* Automaton.iter(text): (end_index, value) for every key occurrence, by end index
automaton_iter(auto, tx) ==
    Concat([e \in 1..Len(tx) |-> IterAt(auto, tx, e - 1, e)])

\* iter() raises AttributeError unless words were added before make_automaton()
IterRaises(auto) == auto = <<>>

FieldTerms(v, field) ==
    LET rows == SelectSeq(v, LAMBDA row : row.field = field)
    IN  [i \in 1..Len(rows) |-> rows[i].term]

RowsOf(v, fields) == SelectSeq(v, LAMBDA row : row.field \in fields)

RECURSIVE AddWords(_, _, _)
\* add_word(KeyOf(term), ValueOf(term)) for each term in turn
AddWords(auto, terms, category) ==
    IF terms = <<>> THEN auto
    ELSE AddWords(add_word(auto, Lower(Head(terms)),
                           [original |-> Head(terms), category |-> category]),
                  Tail(terms), category)

RECURSIVE AddLowered(_, _, _)
\* the value is the lower-cased (and, when strip is set, stripped) term itself
AddLowered(auto, terms, strip) ==
    IF terms = <<>> THEN auto
    ELSE LET val == Lower(IF strip THEN Strip(Head(terms)) ELSE Head(terms))
         IN  AddLowered(IF val = <<>> THEN auto
                        ELSE add_word(auto, val, [original |-> val, category |-> "TERM"]),
                        Tail(terms), strip)

\* pandas unique(): first occurrences, in order
RECURSIVE Unique(_)
Unique(s) ==
    IF s = <<>> THEN <<>>
    ELSE LET front == Unique(SubSeq(s, 1, Len(s) - 1)) IN
         IF s[Len(s)] \in Range(front) THEN front ELSE Append(front, s[Len(s)])

\* results of one pattern: a RecognizerResult per match
PatternResults(re, tx, entity_type, score) ==
    LET ms == finditer(re, tx)
    IN  [k \in 1..Len(ms) |-> [entity_type |-> entity_type, start |-> ms[k].start,
                               end |-> ms[k].end, score |-> score]]

\* ------------------------------------------------------------ ICD10Recognizer
\* preprocess_and_save_patterns: short descriptions first, then long ones
ICD10Automaton(v) ==
    AddWords(AddWords(<<>>, FieldTerms(v, "ICD10_SHORT"), "SHORT_DESC"),
             FieldTerms(v, "ICD10_LONG"), "LONG_DESC")

\* Pattern(f"ICD10-Code:{c}", rf"\b{re.escape(c)}\b", 1.0) for each unique code
ICD10CodeRegexes(v) ==
    LET codes == Unique(FieldTerms(v, "ICD10_CODE"))
    IN  [k \in 1..Len(codes) |-> Cat(<<WordBoundary, Lit(codes[k]), WordBoundary>>)]

ICD10CodeResults(v, tx) ==
    LET res == ICD10CodeRegexes(v)
    IN  Concat([k \in 1..Len(res) |-> PatternResults(res[k], tx, "ICD10_CODE", 100)])

\* text[start_idx:end+1] == original
SliceVerified(tx, start_idx, end, original) ==
    Slice(tx, start_idx, end + 1) = original

\* the description loop: a hit is kept when the original-case slice equals the
\* description and its span was not seen before
RECURSIVE ICD10DescriptionHits(_, _, _, _)
ICD10DescriptionHits(hits, k, tx, seen) ==
    IF k > Len(hits) THEN <<>>
    ELSE LET h == hits[k]
             start_idx == h.end - Len(h.value.original) + 1
         IN  IF SliceVerified(tx, start_idx, h.end, h.value.original)
                /\ <<start_idx, h.end + 1>> \notin seen
             THEN <<[start |-> start_idx, end |-> h.end + 1, key |-> h.key,
                     category |-> h.value.category]>>
                  \o ICD10DescriptionHits(hits, k + 1, tx, seen \cup {<<start_idx, h.end + 1>>})
             ELSE ICD10DescriptionHits(hits, k + 1, tx, seen)

HitResult(h, entity_type, score) ==
    [entity_type |-> entity_type, start |-> h.start, end |-> h.end, score |-> score]

ICD10DescriptionResults(hs) ==
    [k \in 1..Len(hs) |->
        IF hs[k].category = "SHORT_DESC"
        THEN HitResult(hs[k], "ICD10_SHORT_DESC", 85)
        ELSE HitResult(hs[k], "ICD10_LONG_DESC", 70)]

\* ------------------------------------------------------------ HipaaRegRecognizer
six_digit_pattern ==
    Cat(<<WordBoundary, Rep(Cls(Digits), 6, -1), WordBoundary>>)
unformatted_ssn_pattern ==
    Cat(<<WordBoundary, D(3), Opt(Lit(<<"-">>)), D(2), Opt(Lit(<<"-">>)), D(4),
      WordBoundary>>)

\* load_data: ICD-9 codes, ICD-10 codes and descriptions row by row, drugs,
\* ingredients (the last two lower-cased before they are added)
RECURSIVE AddICD10Rows(_, _)
AddICD10Rows(auto, rows) ==
    IF rows = <<>> THEN auto
    ELSE LET row == Head(rows)
             category == IF row.field = "ICD10_CODE" THEN "ICD10" ELSE "ICD10_DESC"
         IN  AddICD10Rows(add_word(auto, Lower(row.term),
                                   [original |-> row.term, category |-> category]),
                          Tail(rows))

HipaaRegAutomaton(v) ==
    LET icd9 == AddWords(<<>>, FieldTerms(v, "ICD9_CODE"), "ICD9")
        icd10 == AddICD10Rows(icd9, RowsOf(v, {"ICD10_CODE", "ICD10_SHORT", "ICD10_LONG"}))
        drugs == AddLowered(icd10, FieldTerms(v, "DRUG"), FALSE)
    IN  AddLowered(drugs, FieldTerms(v, "INGREDIENT"), FALSE)

\* start_idx = end_idx - len(matched_val) + 1, every hit becomes a result
HipaaRegHits(hits) ==
    [k \in 1..Len(hits) |->
        [start |-> hits[k].end - Len(hits[k].value.original) + 1,
         end |-> hits[k].end + 1, key |-> hits[k].key]]

\* ------------------------------------------------------------ LowThresholdHIPAARecognizer
NUMBER_PATTERN ==
    Cat(<<WordBoundary, Rep(Cls(Digits), 6, -1), WordBoundary>>)
SSN_PATTERN ==
    Cat(<<WordBoundary, D(3), Opt(Cls(SpaceChars \cup {"-"})), D(2),
      Opt(Cls(SpaceChars \cup {"-"})), D(4), WordBoundary>>)
NAME_PATTERN ==
    Cat(<<WordBoundary, Cls(UpperLetters), Rep(Cls(LowerLetters), 1, -1),
      Rep(Cat(<<Cls(SpaceChars \cup {"-", "'"}), Cls(UpperLetters), Rep(Cls(LowerLetters), 1,
      -1)>>), 1, -1), WordBoundary>>)
MonthName ==
    Alt(<<LitI(<<"J", "a", "n">>), LitI(<<"F", "e", "b">>), LitI(<<"M", "a", "r">>),
      LitI(<<"A", "p", "r">>), LitI(<<"M", "a", "y">>), LitI(<<"J", "u", "n">>), LitI(<<"J",
      "u", "l">>), LitI(<<"A", "u", "g">>), LitI(<<"S", "e", "p">>), LitI(<<"S", "e", "p",
      "t">>), LitI(<<"O", "c", "t">>), LitI(<<"N", "o", "v">>), LitI(<<"D", "e", "c">>)>>)
\* DATE_PATTERN up to its capturing group, and the group
DATE_PATTERN_prefix ==
    Cat(<<WordBoundary, LitI(<<"D">>), Alt(<<LitI(<<"O", "B">>), LitI(<<"O", "S">>),
      Cat(<<LitI(<<"a", "t", "e">>), Opt(Cat(<<LitI(<<" ", "o", "f", " ">>), Alt(<<LitI(<<"B",
      "i", "r", "t", "h">>), LitI(<<"S", "e", "r", "v", "i", "c", "e">>)>>)>>))>>), LitI(<<"a",
      "t", "e">>)>>), WordBoundary, Rep(Cls(SpaceChars \cup {":"}), 0, -1)>>)
DATE_PATTERN_group ==
    Alt(<<Cat(<<Rep(Cls(Digits), 1, 2), Cls({"/", "-"}), Rep(Cls(Digits), 1, 2), Cls({"/",
      "-"}), Rep(Cls(Digits), 2, 4)>>), Cat(<<D(4), Cls({"/", "-"}), Rep(Cls(Digits), 1, 2),
      Cls({"/", "-"}), Rep(Cls(Digits), 1, 2)>>), Cat(<<Rep(Cls(Digits), 1, 2), LitI(<<".">>),
      Rep(Cls(Digits), 1, 2), LitI(<<".">>), Rep(Cls(Digits), 2, 4)>>), Cat(<<Rep(Cls(Digits),
      1, 2), Cls(SpaceChars), MonthName,
      Rep(Cls(LowerLetters \cup UpperLetters \cup {CapitalIDot}), 0, -1), Cls(SpaceChars),
      Rep(Cls(Digits), 2, 4)>>), Cat(<<MonthName,
      Rep(Cls(LowerLetters \cup UpperLetters \cup {CapitalIDot}), 0, -1), Cls(SpaceChars),
      Rep(Cls(Digits), 1, 2), Opt(LitI(<<",">>)), Cls(SpaceChars), Rep(Cls(Digits), 2,
      4)>>)>>)

\* the first way the prefix can end so that the group matches after it:
\* the span of group 1 of the match that starts at p, or <<>>
RECURSIVE GroupAfter(_, _, _, _)
GroupAfter(pre_ends, k, grp, tx) ==
    IF k > Len(pre_ends) THEN <<>>
    ELSE LET es == Ends(grp, tx, pre_ends[k]) IN
         IF es # <<>> THEN <<[start |-> pre_ends[k], end |-> es[1]]>>
         ELSE GroupAfter(pre_ends, k + 1, grp, tx)

\* finditer of prefix(group): the (m.start(1), m.end(1)) spans
RECURSIVE FindGroupFrom(_, _, _, _)
FindGroupFrom(pre, grp, tx, p) ==
    IF p > Len(tx) THEN <<>>
    ELSE LET g == GroupAfter(Ends(pre, tx, p), 1, grp, tx) IN
         IF g = <<>> THEN FindGroupFrom(pre, grp, tx, p + 1)
         ELSE g \o FindGroupFrom(pre, grp, tx, g[1].end)

\* _load_medical_terms: ICD-9 long descriptions, ICD-10 descriptions, drugs,
\* ingredients, each under its lower-cased form with the original as value
LowThresholdAutomaton(v) ==
    LET rows == RowsOf(v, {"ICD9_LONG"}) \o RowsOf(v, {"ICD10_SHORT", "ICD10_LONG"})
                \o RowsOf(v, {"DRUG"}) \o RowsOf(v, {"INGREDIENT"})
    IN  AddWords(<<>>, [i \in 1..Len(rows) |-> rows[i].term], "TERM")

\* start = end - len(term) + 1; a (start, end) pair is taken once
RECURSIVE LowThresholdHits(_, _, _)
LowThresholdHits(hits, k, seen_offsets) ==
    IF k > Len(hits) THEN <<>>
    ELSE LET h == hits[k]
             start == h.end - Len(h.value.original) + 1
         IN  IF <<start, h.end>> \notin seen_offsets
             THEN <<[start |-> start, end |-> h.end + 1, key |-> h.key]>>
                  \o LowThresholdHits(hits, k + 1, seen_offsets \cup {<<start, h.end>>})
             ELSE LowThresholdHits(hits, k + 1, seen_offsets)

\* ------------------------------------------------------------ HIPAAHITECHMEDIUMRecognizer
patient_id_pattern ==
    Cat(<<WordBoundary, LitI(<<"P">>), Alt(<<LitI(<<"a", "t", "i", "e", "n", "t", " ", "I",
      "d", "e", "n", "t", "i", "f", "i", "c", "a", "t", "i", "o", "n", " ", "N", "u", "m", "b",
      "e", "r">>), LitI(<<"a", "t", "i", "e", "n", "t", " ", "I", "d">>), LitI(<<"a", "t", "i",
      "e", "n", "t", " ", "N", "u", "m", "b", "e", "r">>), LitI(<<"a", "t", "i", "e", "n", "t",
      " ", "#">>), LitI(<<"I", "N">>)>>), Rep(Cls(SpaceChars \cup {":"}), 0, -1),
      Rep(Cls(Digits), 4, -1), WordBoundary>>)
ssn_pattern ==
    Cat(<<WordBoundary, D(3), Opt(Lit(<<"-">>)), D(2), Opt(Lit(<<"-">>)), D(4),
      WordBoundary>>)
npi_pattern ==
    Cat(<<WordBoundary, D(10), WordBoundary>>)

\* _load_healthcare_dictionaries: every field of the ICD rows, then drugs and
\* ingredients, stripped and lower-cased; empty ICD values are skipped
MediumAutomaton(v) ==
    LET icd == RowsOf(v, {"ICD9_CODE", "ICD9_LONG"})
               \o RowsOf(v, {"ICD10_CODE", "ICD10_SHORT", "ICD10_LONG"})
        rest == RowsOf(v, {"DRUG"}) \o RowsOf(v, {"INGREDIENT"})
        all == icd \o rest
    IN  AddLowered(<<>>, [i \in 1..Len(all) |-> all[i].term], TRUE)

MediumHits(hits) ==
    [k \in 1..Len(hits) |->
        [start |-> hits[k].end - Len(hits[k].value.original) + 1,
         end |-> hits[k].end + 1, key |-> hits[k].key]]

HitResults(hs, entity_type, score) ==
    [k \in 1..Len(hs) |-> HitResult(hs[k], entity_type, score)]

\* ------------------------------------------------------------ the calls
DictRecognizers == FilterRecognizers

SupportedEntity(r) ==
    CASE r = "ICD10Recognizer" -> "ICD10_CODE"
      [] r = "HipaaRegRecognizer" -> "HIPAAREG"
      [] r = "LowThresholdHIPAARecognizer" -> "HIPAA_HITECH_LOW_THRESHOLD"
      [] r = "HIPAAHITECHMEDIUMRecognizer" -> "HIPAA_HITECH_MEDIUM"

AutomatonOf(r, v) ==
    CASE r = "ICD10Recognizer" -> ICD10Automaton(v)
      [] r = "HipaaRegRecognizer" -> HipaaRegAutomaton(v)
      [] r = "LowThresholdHIPAARecognizer" -> LowThresholdAutomaton(v)
      [] r = "HIPAAHITECHMEDIUMRecognizer" -> MediumAutomaton(v)

MaxDictTokens == 2

\* what a text is put together from
DictTokens ==
    {<<"a", "b">>,
     <<"A", "B">>,
     <<CapitalIDot, "a", "b">>,
     <<"1", "2", "3", "4", "5", "6", "7", "8", "9">>,
     <<"A", "1">>,
     <<"A", "b", " ", "A", "b", " ", "D", "O", "B", " ", "1", "/", "2", "/", "2", "3">>}

DictTexts == {JoinWith(<<" ">>, l) : l \in ListsUpTo(DictTokens, MaxDictTokens)}

ShortAb == [field |-> "ICD10_SHORT", term |-> <<"A", "b">>]
LongAb == [field |-> "ICD10_LONG", term |-> <<"a", "b">>]
DrugA == [field |-> "DRUG", term |-> <<"a">>]
DrugIDot == [field |-> "DRUG", term |-> <<CapitalIDot, "a">>]
CodeA1 == [field |-> "ICD10_CODE", term |-> <<"A", "1">>]
Icd9B == [field |-> "ICD9_LONG", term |-> <<"b", " ">>]

\* the vocabularies the data files may hold
Vocabularies ==
    {<<>>, <<ShortAb>>, <<ShortAb, LongAb>>, <<LongAb, DrugA>>,
     <<CodeA1, LongAb>>, <<CodeA1, ShortAb>>, <<Icd9B, ShortAb, DrugIDot>>}

\* whether the constructor returns. ICD10Recognizer hands self.patterns[:1] to
\* PatternRecognizer.__init__, which raises ValueError when it is given neither
\* patterns nor a deny list; the other three are LocalRecognizers
Constructs(r, v) == r = "ICD10Recognizer" => ICD10CodeRegexes(v) # <<>>

InitDict ==
    /\ recognizer \in DictRecognizers
    /\ pc = "start"
    /\ text \in DictTexts
    /\ vocab \in Vocabularies
    /\ Constructs(recognizer, vocab)
    /\ entities \in {{}, {SupportedEntity(recognizer)}}
    /\ collected = <<>>
    /\ returned = <<>>
    /\ FilterIdle
    /\ CheckIdle

\* what one call of analyze comes to: the dictionary hits it turned into results,
\* and the list it returned unless it raised
Returns(hs, rs) == [raised |-> FALSE, hits |-> hs, results |-> rs]
Raises == [raised |-> TRUE, hits |-> <<>>, results |-> <<>>]

\* ICD10Recognizer.analyze(text, entities)
ICD10_analyze(tx, ents, v) ==
    LET auto == ICD10Automaton(v)
        text_lower == Lower(tx)
        codes == ICD10CodeResults(v, tx)
    IN  IF IterRaises(auto) THEN Raises
        ELSE LET hs == ICD10DescriptionHits(automaton_iter(auto, text_lower), 1, tx, {})
             IN  Returns(hs, filter_overlaps("ICD10Recognizer",
                                             codes \o ICD10DescriptionResults(hs)))

\* HipaaRegRecognizer.analyze(text, entities)
HipaaReg_analyze(tx, ents, v) ==
    LET auto == HipaaRegAutomaton(v)
        text_lower == Lower(tx)
    IN  IF "HIPAAREG" \notin ents THEN Returns(<<>>, <<>>)
        ELSE IF IterRaises(auto) THEN Raises
        ELSE LET hs == HipaaRegHits(automaton_iter(auto, text_lower))
                 condition_1_matches == HitResults(hs, "HIPAAREG", 85)
                 condition_2_matches ==
                     PatternResults(six_digit_pattern, tx, "HIPAAREG", 80)
                     \o PatternResults(unformatted_ssn_pattern, tx, "HIPAAREG", 95)
             IN  IF condition_1_matches # <<>> /\ condition_2_matches # <<>>
                 THEN Returns(hs, filter_overlaps("HipaaRegRecognizer",
                                      condition_1_matches \o condition_2_matches))
                 ELSE Returns(hs, <<>>)

\* LowThresholdHIPAARecognizer.analyze(text, entities)
LowThreshold_analyze(tx, ents, v) ==
    LET auto == LowThresholdAutomaton(v)
        text_lower == Lower(tx)
        e == "HIPAA_HITECH_LOW_THRESHOLD"
    IN  IF e \notin ents THEN Returns(<<>>, <<>>)
        ELSE IF IterRaises(auto) THEN Raises
        ELSE LET condition1 == PatternResults(NUMBER_PATTERN, tx, e, 80)
                               \o PatternResults(SSN_PATTERN, tx, e, 95)
                 hs == LowThresholdHits(automaton_iter(auto, text_lower), 1, {})
                 condition2 == HitResults(hs, e, 100)
                 condition3 == PatternResults(NAME_PATTERN, tx, e, 70)
                 dates == FindGroupFrom(DATE_PATTERN_prefix, DATE_PATTERN_group, tx, 0)
                 condition4 == HitResults(dates, e, 85)
             IN  IF condition1 # <<>> /\ condition2 # <<>>
                    /\ condition3 # <<>> /\ condition4 # <<>>
                 THEN Returns(hs, filter_overlaps("LowThresholdHIPAARecognizer",
                                      condition1 \o condition2 \o condition3 \o condition4))
                 ELSE Returns(hs, <<>>)

\* an analyze that is content with one of the two conditions
Medium_analyze_either_condition(tx, ents, v) ==
    LET auto == MediumAutomaton(v)
        text_lower == Lower(tx)
    IN  IF "HIPAA_HITECH_MEDIUM" \notin ents THEN Returns(<<>>, <<>>)
        ELSE IF IterRaises(auto) THEN Raises
        ELSE LET a_results ==
                     PatternResults(patient_id_pattern, tx, "PATIENT_ID", 85)
                     \o PatternResults(ssn_pattern, tx, "US_SSN", 90)
                     \o PatternResults(npi_pattern, tx, "NPI", 90)
                 hs == MediumHits(automaton_iter(auto, text_lower))
                 b_results == HitResults(hs, "HEALTH_TERM", 100)
             IN  Returns(hs, filter_overlaps("HIPAAHITECHMEDIUMRecognizer",
                                 IF a_results # <<>> \/ b_results # <<>>
                                 THEN a_results \o b_results ELSE <<>>))

\* HIPAAHITECHMEDIUMRecognizer.analyze(text, entities)
Medium_analyze(tx, ents, v) ==
    LET auto == MediumAutomaton(v)
        text_lower == Lower(tx)
    IN  IF "HIPAA_HITECH_MEDIUM" \notin ents THEN Returns(<<>>, <<>>)
        ELSE IF IterRaises(auto) THEN Raises
        ELSE LET a_results ==
                     PatternResults(patient_id_pattern, tx, "PATIENT_ID", 85)
                     \o PatternResults(ssn_pattern, tx, "US_SSN", 90)
                     \o PatternResults(npi_pattern, tx, "NPI", 90)
                 hs == MediumHits(automaton_iter(auto, text_lower))
                 b_results == HitResults(hs, "HEALTH_TERM", 100)
             IN  Returns(hs, filter_overlaps("HIPAAHITECHMEDIUMRecognizer",
                                 IF a_results # <<>> /\ b_results # <<>>
                                 THEN a_results \o b_results ELSE <<>>))

\* the call ends: the list is handed back, or the exception leaves analyze
Finish(out) ==
    /\ collected' = out.hits
    /\ returned' = out.results
    /\ pc' = IF out.raised THEN "raised" ELSE "returned"
    /\ UNCHANGED <<recognizer, text, vocab, entities, filterVars, checkVars>>

AnalyzeICD10 ==
    /\ pc = "start"
    /\ recognizer = "ICD10Recognizer"
    /\ Finish(ICD10_analyze(text, entities, vocab))

AnalyzeHipaaReg ==
    /\ pc = "start"
    /\ recognizer = "HipaaRegRecognizer"
    /\ Finish(HipaaReg_analyze(text, entities, vocab))

AnalyzeLowThreshold ==
    /\ pc = "start"
    /\ recognizer = "LowThresholdHIPAARecognizer"
    /\ Finish(LowThreshold_analyze(text, entities, vocab))

AnalyzeMedium ==
    /\ pc = "start"
    /\ recognizer = "HIPAAHITECHMEDIUMRecognizer"
    /\ Finish(Medium_analyze(text, entities, vocab))

NextDict == AnalyzeICD10 \/ AnalyzeHipaaReg \/ AnalyzeLowThreshold \/ AnalyzeMedium

SpecDict == InitDict /\ [][NextDict]_vars

\* ------------------------------------------------------------ claims C6, C7
\* brute-force case-insensitive search of every key of the automaton in the text
BruteForceHits(auto, tx) ==
    {<<s, e, auto[i].key>> : s \in 0..Len(tx), e \in 0..Len(tx), i \in 1..Len(auto)}
    \cap {h \in (0..Len(tx)) \X (0..Len(tx)) \X {auto[i].key : i \in 1..Len(auto)} :
            h[1] < h[2] /\ Lower(Slice(tx, h[1], h[2])) = h[3]}

HitSet(hs) == {<<hs[k].start, hs[k].end, hs[k].key>> : k \in 1..Len(hs)}

\* C6: for any vocabulary and any text, of any letter case, the (start, end, key)
\* dictionary hits the recognizer turns into results, before overlap filtering,
\* are exactly those of a brute-force case-insensitive substring search of every
\* key in the text (description pass of ICD10Recognizer.analyze, dictionary pass
\* of HipaaRegRecognizer.analyze).
C6_HitsEqualBruteForce ==
    (/\ pc = "returned"
     /\ recognizer \in {"ICD10Recognizer", "HipaaRegRecognizer"}
     /\ (recognizer = "HipaaRegRecognizer" => "HIPAAREG" \in entities))
    => HitSet(collected) = BruteForceHits(AutomatonOf(recognizer, vocab), text)

\* the dictionary results among the returned ones
ReportedHits ==
    {k \in 1..Len(collected) :
        \E i \in 1..Len(returned) :
            /\ returned[i].start = collected[k].start
            /\ returned[i].end = collected[k].end
            /\ returned[i].score = (IF recognizer = "HipaaRegRecognizer" THEN 85 ELSE 100)}

\* C7: every dictionary hit found in the lower-cased text is verified against the
\* original-case text before it is reported: each reported dictionary result has
\* 0 <= start < end <= len(text) and an original-text slice [start, end) as long
\* as the matched key, also when lower-casing changes the length of the text
\* (LowThresholdHIPAARecognizer, HipaaRegRecognizer, HIPAAHITECHMEDIUMRecognizer).
C7_ReportedHitsVerified ==
    (pc = "returned" /\ recognizer # "ICD10Recognizer") =>
        \A k \in ReportedHits :
            /\ 0 <= collected[k].start
            /\ collected[k].start < collected[k].end
            /\ collected[k].end <= Len(text)
            /\ Len(Slice(text, collected[k].start, collected[k].end)) = Len(collected[k].key)

\* ============================================================ checksum validators
\* The Luhn implementations and the IBAN mod-97 validators. Each is applied to
\* the same candidate string; verdicts records what each returned.

\* the verdict of one more validator
Record(name, value) ==
    verdicts' = [n \in DOMAIN verdicts \cup {name} |->
                    IF n = name THEN value ELSE verdicts[n]]
Called(name) == name \in DOMAIN verdicts

\* re.sub(r"\D", "", ccn) and [d for d in card_number if d.isdigit()]
OnlyDigits(cs) == SelectSeq(cs, LAMBDA c : c \in Digits)

\* ------------------------------------------------------------ CCTrackDataRecognizer
\* for i, digit in enumerate(digits): doubled where i % 2 == parity
RECURSIVE CcnChecksum(_, _, _)
CcnChecksum(digits, i, parity) ==
    IF i >= Len(digits) THEN 0
    ELSE LET digit == DigitValue(digits[i + 1])
             doubled == IF digit * 2 > 9 THEN digit * 2 - 9 ELSE digit * 2
         IN  (IF i % 2 = parity THEN doubled ELSE digit) + CcnChecksum(digits, i + 1, parity)

\* the parity taken from the wrong end
ccn_luhn_checksum_parity_slip(card_number) ==
    LET digits == OnlyDigits(card_number) IN
    IF digits = <<>> THEN FALSE
    ELSE CcnChecksum(digits, 0, (Len(digits) + 1) % 2) % 10 = 0

\* the inner luhn_checksum(card_number) of validate_ccn
ccn_luhn_checksum(card_number) ==
    LET digits == OnlyDigits(card_number) IN
    IF digits = <<>> THEN FALSE
    ELSE CcnChecksum(digits, 0, Len(digits) % 2) % 10 = 0

validate_ccn(ccn) ==
    LET cleaned_ccn == OnlyDigits(ccn)
    IN  Len(cleaned_ccn) >= 13 /\ ccn_luhn_checksum(cleaned_ccn)

\* ------------------------------------------------------------ CanadaSINRecognizer
\* digits[from::-2], from being -1 or -2: every second digit, right to left
RECURSIVE BackwardSlice(_, _)
BackwardSlice(digits, last) ==
    IF last < 1 THEN <<>> ELSE <<digits[last]>> \o BackwardSlice(digits, last - 2)

\* sum(digits_of(n)) for n below 100
SumDigitsOf(n) == (n \div 10) + (n % 10)

RECURSIVE SumSeq(_)
SumSeq(ns) == IF ns = <<>> THEN 0 ELSE Head(ns) + SumSeq(Tail(ns))

luhn_checksum(number) ==
    LET digits == [i \in 1..Len(number) |-> DigitValue(number[i])]
        odd_digits == BackwardSlice(digits, Len(digits))
        even_digits == BackwardSlice(digits, Len(digits) - 1)
        checksum == SumSeq(odd_digits)
                    + SumSeq([k \in 1..Len(even_digits) |-> SumDigitsOf(even_digits[k] * 2)])
    IN  checksum % 10 = 0

\* ------------------------------------------------------------ Luhn calls
MaxLuhnLen == 2
MaxLuhnTail == 2

LuhnBases ==
    {<<"4", "5", "3", "2", "0", "1", "5", "1", "1", "2", "8", "3", "0", "3", "6", "6">>,
     <<"3", "7", "8", "2", "8", "2", "2", "4", "6", "3", "1", "0", "0", "0", "5">>,
     <<"4", "2", "2", "2", "2", "2", "2", "2", "2", "2", "2", "2", "2">>,
     <<"0", "4", "6", "4", "5", "4", "2", "8", "6">>,
     <<"1", "2", "3", "4", "5", "6", "7", "8", "9", "0", "1", "2">>}

\* the base with its p-th digit from the right replaced by d
WithDigit(base, p, d) == [i \in 1..Len(base) |-> IF i = Len(base) + 1 - p THEN d ELSE base[i]]

LuhnInputs ==
    (ListsUpTo(Digits, MaxLuhnLen) \ {<<>>})
    \cup {WithDigit(b, p, d) : b \in LuhnBases, p \in 1..MaxLuhnTail, d \in Digits}

InitLuhn ==
    /\ recognizer = "none"
    /\ pc = "start"
    /\ candidate \in LuhnInputs
    /\ verdicts = <<>>
    /\ idx = 0
    /\ remainder = 0
    /\ FilterIdle
    /\ AnalyzeIdle

LuhnFrame == UNCHANGED <<pc, candidate, idx, remainder, filterVars, analyzeVars>>

\* AllCreditCardNumberRecognizer._luhn_check(candidate)
CallLuhnCheck ==
    /\ ~Called("_luhn_check")
    /\ recognizer' = "AllCreditCardNumberRecognizer"
    /\ Record("_luhn_check", luhn_check(candidate))
    /\ LuhnFrame

\* CCTrackDataRecognizer.validate_ccn(candidate)
CallValidateCcn ==
    /\ ~Called("validate_ccn")
    /\ recognizer' = "CCTrackDataRecognizer"
    /\ Record("validate_ccn", validate_ccn(candidate))
    /\ LuhnFrame

\* CanadaSINRecognizer._luhn_checksum(candidate)
CallLuhnChecksum ==
    /\ ~Called("_luhn_checksum")
    /\ recognizer' = "CanadaSINRecognizer"
    /\ Record("_luhn_checksum", luhn_checksum(candidate))
    /\ LuhnFrame

NextLuhn == CallLuhnCheck \/ CallValidateCcn \/ CallLuhnChecksum

SpecLuhn == InitLuhn /\ [][NextLuhn]_vars

\* ------------------------------------------------------------ claim C8
\* the reference: the digit at 0-based distance k from the right end counts
\* doubled when k is odd, less 9 when the doubled value exceeds 9
ReferenceWeight(digit, k) ==
    IF k % 2 = 0 THEN digit
    ELSE IF 2 * digit > 9 THEN 2 * digit - 9 ELSE 2 * digit

ReferenceLuhn(cs) ==
    SumSeq([i \in 1..Len(cs) |-> ReferenceWeight(DigitValue(cs[i]), Len(cs) - i)]) % 10 = 0

ValidCard == <<"4", "5", "3", "2", "0", "1", "5", "1", "1", "2", "8", "3", "0", "3", "6", "6">>
InvalidCard == <<"4", "5", "3", "2", "0", "1", "5", "1", "1", "2", "8", "3", "0", "3", "6", "7">>

\* C8 as stated: every Luhn implementation (_luhn_check, validate_ccn,
\* _luhn_checksum) returns the reference result for every non-empty digit string.
C8_EveryLuhnIsReference ==
    \A n \in DOMAIN verdicts : verdicts[n] = ReferenceLuhn(candidate)

\* C8 as it holds: _luhn_check and _luhn_checksum return the reference result for
\* every non-empty digit string; validate_ccn returns it for strings of at least
\* 13 digits and False for shorter ones; "4532015112830366" is valid for all
\* three and "4532015112830367" invalid.
C8_LuhnIsReferenceFromThirteenDigits ==
    /\ \A n \in DOMAIN verdicts \ {"validate_ccn"} : verdicts[n] = ReferenceLuhn(candidate)
    /\ Called("validate_ccn") =>
          verdicts["validate_ccn"] = (Len(candidate) >= 13 /\ ReferenceLuhn(candidate))
    /\ candidate = ValidCard => \A n \in DOMAIN verdicts : verdicts[n]
    /\ candidate = InvalidCard => \A n \in DOMAIN verdicts : ~verdicts[n]

C8_Witness ==
    /\ candidate = ValidCard
    /\ DOMAIN verdicts = {"_luhn_check", "validate_ccn", "_luhn_checksum"}
    /\ \A n \in DOMAIN verdicts : verdicts[n]

\* ------------------------------------------------------------ IBAN validators
IBAN_LENGTHS ==
    [AT |-> 20, BE |-> 16, BG |-> 22, HR |-> 21, CY |-> 28, CZ |-> 24,
     DK |-> 18, EE |-> 20, FI |-> 18, FR |-> 27, DE |-> 22, GR |-> 27,
     HU |-> 28, IE |-> 22, IT |-> 27, LV |-> 21, LT |-> 20, LU |-> 20,
     MT |-> 31, NL |-> 18, PL |-> 28, PT |-> 25, RO |-> 24, SK |-> 24,
     SI |-> 19, ES |-> 24, SE |-> 24, GB |-> 22]

\* two one-character strings as the key they spell
CountryKey(cs) == {k \in DOMAIN IBAN_LENGTHS : Len(cs) = 2 /\ k = cs[1] \o cs[2]}

\* _has_valid_length(iban)
has_valid_length(iban) ==
    LET country_code == CountryKey(Slice(iban, 0, 2))
    IN  IF country_code = {} THEN FALSE
        ELSE \A k \in country_code : Len(iban) = IBAN_LENGTHS[k]

\* str.isalpha() over the characters of the model
IsAlpha(ch) == ch \in UpperLetters \cup LowerLetters

\* str.upper(), character by character
UpperChar(c) ==
    IF c \in LowerLetters
    THEN UpperSeq[CHOOSE i \in 1..26 : LowerSeq[i] = c]
    ELSE c
Upper(cs) == [i \in 1..Len(cs) |-> UpperChar(cs[i])]

\* int(ch, 36)
Int36(ch) ==
    IF ch \in Digits THEN DigitValue(ch)
    ELSE 9 + (CHOOSE i \in 1..26 : UpperSeq[i] = UpperChar(ch))

\* str(n) for n below 100
Str(n) == IF n < 10 THEN <<DigitSeq[n + 1]>>
          ELSE <<DigitSeq[(n \div 10) + 1], DigitSeq[(n % 10) + 1]>>

\* iban[2:] + iban[:2]
RearrangedTwo(iban) == Slice(iban, 2, Len(iban)) \o Slice(iban, 0, 2)

\* iban[4:] + iban[:4]
Rearranged(iban) == Slice(iban, 4, Len(iban)) \o Slice(iban, 0, 4)

\* ''.join(str(int(ch, 36)) if ch.isalpha() else ch for ch in rearranged)
Numeric(rearranged) ==
    Concat([i \in 1..Len(rearranged) |->
              IF IsAlpha(rearranged[i]) THEN Str(Int36(rearranged[i])) ELSE <<rearranged[i]>>])

\* 10^k % 97
RECURSIVE Pow10Mod97(_)
Pow10Mod97(k) == IF k = 0 THEN 1 ELSE (10 * Pow10Mod97(k - 1)) % 97

\* int(numeric) % 97 for a string of digits: the value of the numeral is the sum
\* of its digits times their powers of ten
IntMod97(numeric) ==
    SumSeq([i \in 1..Len(numeric) |->
              DigitValue(numeric[i]) * Pow10Mod97(Len(numeric) - i)]) % 97

\* int(numeric) raises ValueError unless the string is a numeral
IntRaises(numeric) == ~IsDigit(numeric)

\* EU_IBANRecognizer._is_valid_checksum(iban); the bank-code check changes nothing
EU_is_valid_checksum(iban) ==
    IF ~has_valid_length(iban) THEN FALSE
    ELSE LET numeric_iban == Numeric(Rearranged(iban))
         IN  IF IntRaises(numeric_iban) THEN FALSE
             ELSE IntMod97(numeric_iban) = 1

\* FranceIBANRecognizer._is_valid_checksum(iban)
France_is_valid_checksum(iban) ==
    LET numeric_iban == Numeric(Rearranged(iban))
    IN  IF IntRaises(numeric_iban) THEN FALSE
        ELSE IntMod97(numeric_iban) = 1

\* re.match(r"^DE\d{20}$", iban)
GermanFormat(iban) ==
    /\ Len(iban) = 22
    /\ Slice(iban, 0, 2) = <<"D", "E">>
    /\ \A i \in 3..22 : iban[i] \in Digits

\* GermanIBANRecognizer._validate_checksum(iban)
German_validate_checksum(iban) ==
    IF ~GermanFormat(iban) THEN FALSE
    ELSE LET numeric == Numeric(Rearranged(iban))
         IN  IF IntRaises(numeric) THEN FALSE
             ELSE IntMod97(numeric) = 1

\* ------------------------------------------------------------ SwedenIBANRecognizer
\* re.sub(r'[^A-Z0-9]', '', iban.upper())
SwedenClean(iban) == SelectSeq(Upper(iban), LAMBDA c : c \in UpperLetters \cup Digits)

\* a letter folded in as if it were one digit
SwedenFoldOneDigit(rem, num) == (rem * 10 + num) % 97

\* one turn of the loop: a digit shifts the remainder by one place, a letter by two
SwedenFold(rem, num) ==
    IF num < 10 THEN (rem * 10 + num) % 97 ELSE (rem * 100 + num) % 97

\* ------------------------------------------------------------ IBAN calls
IbanChars == Digits \cup UpperLetters \cup LowerLetters

IbanBases ==
    {<<"G", "B", "2", "9", "N", "W", "B", "K", "6", "0", "1", "6", "1", "3", "3", "1", "9", "2", "6", "8", "1", "9">>,
     <<"S", "E", "4", "5", "5", "0", "0", "0", "0", "0", "0", "0", "0", "5", "8", "3", "9", "8", "2", "5", "7", "4", "6", "6">>,
     <<"S", "E", "7", "2", "5", "0", "0", "0", "0", "0", "0", "0", "0", "5", "8", "3", "9", "8", "2", "5", "7", "4", "6", "A">>,
     <<"D", "E", "8", "9", "3", "7", "0", "4", "0", "0", "4", "4", "0", "5", "3", "2", "0", "1", "3", "0", "0", "0">>,
     <<"F", "R", "1", "4", "2", "0", "0", "4", "1", "0", "1", "0", "0", "5", "0", "5", "0", "0", "0", "1", "3", "M", "0", "2", "6", "0", "6">>,
     <<"X", "X", "0", "4", "N", "W", "B", "K", "6", "0", "1", "6", "1", "3", "3", "1", "9", "2", "6", "8", "1", "9">>,
     <<"G", "B", "2", "4", "N", "W", "B", "K", "6", "0", "1", "6", "1", "3", "3", "1", "9", "2", "6", "8", "1">>}

\* every base, and every base with one character replaced
IbanInputs ==
    IbanBases \cup
    UNION {{[i \in 1..Len(b) |-> IF i = p THEN c ELSE b[i]] :
                p \in 1..Len(b), c \in IbanChars} : b \in IbanBases}

InitIban ==
    /\ recognizer = "none"
    /\ pc = "start"
    /\ candidate \in IbanInputs
    /\ verdicts = <<>>
    /\ idx = 0
    /\ remainder = 0
    /\ FilterIdle
    /\ AnalyzeIdle

IbanFrame == UNCHANGED <<candidate, filterVars, analyzeVars>>

\* EU_IBANRecognizer._is_valid_checksum(candidate)
CallEU ==
    /\ pc = "start"
    /\ recognizer' = "EU_IBANRecognizer"
    /\ Record("EU", EU_is_valid_checksum(candidate))
    /\ pc' = "france"
    /\ UNCHANGED <<idx, remainder>>
    /\ IbanFrame

\* FranceIBANRecognizer._is_valid_checksum(candidate)
CallFrance ==
    /\ pc = "france"
    /\ recognizer' = "FranceIBANRecognizer"
    /\ Record("France", France_is_valid_checksum(candidate))
    /\ pc' = "german"
    /\ UNCHANGED <<idx, remainder>>
    /\ IbanFrame

\* GermanIBANRecognizer._validate_checksum(candidate)
CallGerman ==
    /\ pc = "german"
    /\ recognizer' = "GermanIBANRecognizer"
    /\ Record("German", German_validate_checksum(candidate))
    /\ pc' = "sweden"
    /\ UNCHANGED <<idx, remainder>>
    /\ IbanFrame

\* SwedenIBANRecognizer._validate_iban(candidate) up to its loop: the length and
\* country checks return False at once
SwedenEnter ==
    /\ pc = "sweden"
    /\ recognizer' = "SwedenIBANRecognizer"
    /\ LET iban_clean == SwedenClean(candidate) IN
       IF Len(iban_clean) # 24 \/ Slice(iban_clean, 0, 2) # <<"S", "E">>
       THEN Record("Sweden", FALSE) /\ pc' = "done"
       ELSE UNCHANGED verdicts /\ pc' = "sweden_loop"
    /\ idx' = 0
    /\ remainder' = 0
    /\ IbanFrame

\* for char in rearranged: one character folded into the remainder
SwedenLoop ==
    /\ pc = "sweden_loop"
    /\ LET rearranged == Rearranged(SwedenClean(candidate)) IN
       /\ idx < Len(rearranged)
       /\ remainder' = SwedenFold(remainder, Int36(rearranged[idx + 1]))
    /\ idx' = idx + 1
    /\ UNCHANGED <<recognizer, pc, verdicts>>
    /\ IbanFrame

\* return remainder == 1
SwedenReturn ==
    /\ pc = "sweden_loop"
    /\ idx = Len(Rearranged(SwedenClean(candidate)))
    /\ Record("Sweden", remainder = 1)
    /\ pc' = "done"
    /\ UNCHANGED <<recognizer, idx, remainder>>
    /\ IbanFrame

NextIban == CallEU \/ CallFrance \/ CallGerman \/ SwedenEnter \/ SwedenLoop \/ SwedenReturn

SpecIban == InitIban /\ [][NextIban]_vars

\* ------------------------------------------------------------ claims C9, C10
\* a letter's two-digit value: A = 10 ... Z = 35, whichever its case
ReferenceLetterValue(c) ==
    CHOOSE v \in 10..35 : UpperSeq[v - 9] = c \/ LowerSeq[v - 9] = c

\* the remainder modulo 97 of the numeral that the characters spell, the first
\* four moved to the end, digit by digit from the left
RECURSIVE ReferenceRemainder(_, _)
ReferenceRemainder(cs, acc) ==
    IF cs = <<>> THEN acc
    ELSE LET c == Head(cs) IN
         IF c \in Digits
         THEN ReferenceRemainder(Tail(cs), (acc * 10 + DigitValue(c)) % 97)
         ELSE LET v == ReferenceLetterValue(c) IN
              ReferenceRemainder(Tail(cs), ((acc * 10 + (v \div 10)) * 10 + (v % 10)) % 97)

ReferenceMoved(cs) == SubSeq(cs, 5, Len(cs)) \o SubSeq(cs, 1, Min(4, Len(cs)))

ConfiguredLength(cs) ==
    \E k \in DOMAIN IBAN_LENGTHS :
        /\ Len(cs) = IBAN_LENGTHS[k]
        /\ k = cs[1] \o cs[2]

GBExample == <<"G", "B", "2", "9", "N", "W", "B", "K", "6", "0", "1", "6", "1", "3", "3", "1", "9", "2", "6", "8", "1", "9">>

\* C9: EU_IBANRecognizer._is_valid_checksum returns True exactly when the IBAN
\* has the length configured for its country code and the numeral got by moving
\* the first four characters to the end and replacing each letter by its
\* two-digit value is congruent to 1 modulo 97; "GB29NWBK60161331926819" is
\* valid, and a one-character mutation of it is rejected unless the mutated
\* numeral is again congruent to 1 modulo 97.
C9_EUChecksumIsMod97 ==
    Called("EU") =>
        /\ verdicts["EU"] = (/\ ConfiguredLength(candidate)
                             /\ ReferenceRemainder(ReferenceMoved(candidate), 0) = 1)
        /\ candidate = GBExample => verdicts["EU"]

C9_Witness ==
    /\ Called("EU")
    /\ verdicts["EU"]
    /\ candidate = GBExample

\* a one-character mutation of the example that the validator rejects
C9_WitnessMutationRejected ==
    /\ Called("EU")
    /\ ~verdicts["EU"]
    /\ Len(candidate) = Len(GBExample)
    /\ Cardinality({i \in 1..Len(candidate) : candidate[i] # GBExample[i]}) = 1

SwedishInput ==
    /\ Len(candidate) = 24
    /\ \A i \in 1..Len(candidate) : candidate[i] \in IbanChars
    /\ SubSeq(candidate, 1, 2) = <<"S", "E">>

\* C10: for every 24-character alphanumeric input that starts with SE, the
\* streaming remainder of SwedenIBANRecognizer._validate_iban gives the verdict of
\* the arbitrary-precision computation int(numeral) % 97 == 1 that
\* GermanIBANRecognizer and FranceIBANRecognizer use, and the running remainder
\* stays in 0..96 throughout.
C10_StreamingIsBigInt ==
    /\ remainder \in 0..96
    /\ (pc = "done" /\ SwedishInput) =>
          /\ verdicts["Sweden"] = verdicts["France"]
          /\ verdicts["Sweden"] = (IntMod97(Numeric(Rearranged(candidate))) = 1)

\* a valid Swedish IBAN with a letter in it has gone through the loop
C10_Witness ==
    /\ pc = "done"
    /\ SwedishInput
    /\ \E i \in 5..24 : candidate[i] \in UpperLetters \cup LowerLetters
    /\ idx = 24
    /\ verdicts["Sweden"]
    /\ verdicts["France"]

\* ============================================================ pattern recognizers
\* Recognizers built on the library's PatternRecognizer: analyze() first asks the
\* parent for the pattern matches, then validates and scores them.

\* the hooks of the parent, when a recognizer does not override them
NoHook(pattern_text) == "None"

\* what one pattern contributes in the parent: a result per non-empty match, its
\* score set to 1.0 or 0.0 by validate_result, to 0.0 by invalidate_result, and
\* kept when the score is above 0
ParentPatternResults(pat, tx, entity_type, Validate(_), Invalidate(_)) ==
    LET ms == SelectSeq(finditer(pat.regex, tx), LAMBDA m : m.end > m.start)
        scored(m) ==
            LET current_match == Slice(tx, m.start, m.end)
                validated == IF Validate(current_match) = "True" THEN 100
                             ELSE IF Validate(current_match) = "False" THEN 0
                             ELSE pat.score
            IN  IF Invalidate(current_match) = "True" THEN 0 ELSE validated
        all == [k \in 1..Len(ms) |-> [entity_type |-> entity_type, start |-> ms[k].start,
                                      end |-> ms[k].end, score |-> scored(ms[k])]]
    IN  SelectSeq(all, LAMBDA r : r.score > 0)

\* key=lambda x: (-x.score, x.start, -(x.end - x.start))
DuplicateKeyLess(a, b) ==
    \/ a.score > b.score
    \/ a.score = b.score /\ a.start < b.start
    \/ a.score = b.score /\ a.start = b.start /\ (a.end - a.start) > (b.end - b.start)

RECURSIVE SortDuplicates(_)
SortDuplicates(rs) ==
    IF rs = <<>> THEN <<>>
    ELSE LET sorted == SortDuplicates(SubSeq(rs, 1, Len(rs) - 1))
             x == rs[Len(rs)]
             before == SelectSeq(sorted, LAMBDA y : ~DuplicateKeyLess(x, y))
             after == SelectSeq(sorted, LAMBDA y : DuplicateKeyLess(x, y))
         IN  before \o <<x>> \o after

\* result.contained_in(other)
ContainedIn(r, other) == r.start >= other.start /\ r.end <= other.end

RECURSIVE KeepUncontained(_, _)
KeepUncontained(rs, kept) ==
    IF rs = <<>> THEN kept
    ELSE LET r == Head(rs)
             dropped == \E i \in 1..Len(kept) :
                            \/ kept[i] = r
                            \/ ContainedIn(r, kept[i]) /\ r.entity_type = kept[i].entity_type
         IN  KeepUncontained(Tail(rs), IF dropped THEN kept ELSE Append(kept, r))

\* EntityRecognizer.remove_duplicates(results)
remove_duplicates(rs) == KeepUncontained(SortDuplicates(rs), <<>>)

\* PatternRecognizer.analyze(text, entities): every pattern in turn
ParentAnalyze(pats, tx, entity_type, Validate(_), Invalidate(_)) ==
    remove_duplicates(Concat([k \in 1..Len(pats) |->
        ParentPatternResults(pats[k], tx, entity_type, Validate, Invalidate)]))

\* any(keyword in text.lower() for keyword in CONTEXT): the keywords are taken
\* as they are written in CONTEXT
KeywordInLowered(keywords, tx) == AnyIn(keywords, Lower(tx))

\* ------------------------------------------------------------ SpainIBANRecognizer
SpainPATTERNS ==
    <<[regex |-> Cat(<<WordBoundary, LitI(<<"E", "S">>), Rep(Cls(Digits \cup SpaceChars \cup {"-"}),
          1, -1), WordBoundary>>),
       score |-> 30]>>

SpainCONTEXT ==
    <<<<"I", "B", "A", "N">>,
      <<"i", "n", "t", "e", "r", "n", "a", "t", "i", "o", "n", "a", "l", " ", "b", "a", "n", "k", " ", "a", "c", "c", "o", "u", "n", "t", " ", "n", "u", "m", "b", "e", "r">>,
      <<"n", "u-acute", "m", "e", "r", "o", " ", "d", "e", " ", "c", "u", "e", "n", "t", "a", " ", "b", "a", "n", "c", "a", "r", "i", "a">>,
      <<"n", "u-acute", "m", "e", "r", "o", " ", "I", "B", "A", "N">>,
      <<"I", "B", "A", "N", " ", "d", "e", " ", "E", "s", "p", "a", "n-tilde", "a">>,
      <<"a", "c", "c", "o", "u", "n", "t", " ", "n", "u", "m", "b", "e", "r">>,
      <<"b", "a", "n", "k", " ", "a", "c", "c", "o", "u", "n", "t">>>>

\* normalize_iban(iban)
normalize_iban(iban) == SelectSeq(Upper(iban), LAMBDA c : c \in UpperLetters \cup Digits)

is_valid_spanish_iban(iban) ==
    LET normalized == normalize_iban(iban)
        digits_part == Slice(normalized, 2, Len(normalized))
    IN  IF Len(normalized) # 24 THEN FALSE
        ELSE IF Slice(normalized, 0, 2) # <<"E", "S">> THEN FALSE
        ELSE IsDigit(digits_part) /\ Len(digits_part) = 22

\* what analyze made of one result of the parent: whether it kept it, whether it
\* found a context keyword, and the score it gave
Judged(r, kept, keyword_present, score) ==
    [start |-> r.start, end |-> r.end, kept |-> kept,
     keyword_present |-> keyword_present, score |-> score]

KeptResults(judged, entity_type) ==
    LET ks == SelectSeq(judged, LAMBDA j : j.kept)
    IN  [k \in 1..Len(ks) |-> [entity_type |-> entity_type, start |-> ks[k].start,
                               end |-> ks[k].end, score |-> ks[k].score]]

\* SpainIBANRecognizer.analyze(text, entities), one entry per potential result
Spain_analyze(tx) ==
    LET potential_results == ParentAnalyze(SpainPATTERNS, tx, "SPAIN_IBAN", NoHook, NoHook)
        keyword == KeywordInLowered(SpainCONTEXT, tx)
        judge(r) ==
            IF is_valid_spanish_iban(Slice(tx, r.start, r.end))
            THEN Judged(r, TRUE, keyword, IF keyword THEN Min(80 + 20, 100) ELSE 80)
            ELSE Judged(r, FALSE, FALSE, 0)
    IN  [k \in 1..Len(potential_results) |-> judge(potential_results[k])]

\* ------------------------------------------------------------ FranceIBANRecognizer
FrancePATTERNS ==
    <<[regex |-> Cat(<<WordBoundary, Alt(<<LitI(<<"F", "R">>), LitI(<<"M", "C">>)>>), D(2),
          Rep(Cat(<<Opt(LitI(<<" ">>)),
          Rep(Cls(UpperLetters \cup LowerLetters \cup {CapitalIDot} \cup Digits), 4, 4)>>), 1,
          7), Rep(Cls(UpperLetters \cup LowerLetters \cup {CapitalIDot} \cup Digits), 1, 3),
          WordBoundary>>),
       score |-> 50],
      [regex |-> Cat(<<WordBoundary, Alt(<<LitI(<<"F", "R">>), LitI(<<"M", "C">>)>>), D(12),
          Rep(Cls(UpperLetters \cup LowerLetters \cup {CapitalIDot} \cup Digits), 11, 11),
          D(2), WordBoundary>>),
       score |-> 50]>>

FranceCONTEXT ==
    <<<<"I", "B", "A", "N">>,
      <<"i", "n", "t", "e", "r", "n", "a", "t", "i", "o", "n", "a", "l", " ", "b", "a", "n", "k", " ", "a", "c", "c", "o", "u", "n", "t", " ", "n", "u", "m", "b", "e", "r">>,
      <<"n", "u", "m", "e-acute", "r", "o", " ", "d", "e", " ", "c", "o", "m", "p", "t", "e">>,
      <<"n", "u", "m", "e-acute", "r", "o", " ", "I", "B", "A", "N">>,
      <<"c", "o", "d", "e", " ", "I", "B", "A", "N">>,
      <<"i", "d", "e", "n", "t", "i", "f", "i", "a", "n", "t", " ", "b", "a", "n", "c", "a", "i", "r", "e">>>>

\* re.sub(r"\s+", "", s)
RemoveSpaces(cs) == SelectSeq(cs, LAMBDA c : c \notin SpaceChars)

\* FranceIBANRecognizer.analyze(text, entities): every result is kept, an invalid
\* checksum gives it score 0.0
France_analyze(tx) ==
    LET parent_results == ParentAnalyze(FrancePATTERNS, tx, "FRANCE_IBAN", NoHook, NoHook)
        keyword == KeywordInLowered(FranceCONTEXT, tx)
        judge(r) ==
            IF France_is_valid_checksum(RemoveSpaces(Slice(tx, r.start, r.end)))
            THEN Judged(r, TRUE, keyword, IF keyword THEN 100 ELSE 70)
            ELSE Judged(r, TRUE, FALSE, 0)
    IN  [k \in 1..Len(parent_results) |-> judge(parent_results[k])]

\* ------------------------------------------------------------ UKDriversLicenseRecognizer
UKPATTERNS ==
    <<[regex |-> Cat(<<WordBoundary,
          Rep(Cls(UpperLetters \cup LowerLetters \cup {CapitalIDot} \cup {"9"}), 5, 5), D(7),
          Rep(Cls(UpperLetters \cup LowerLetters \cup {CapitalIDot} \cup {"9"}), 2, 2),
          Rep(Cls(UpperLetters \cup LowerLetters \cup {CapitalIDot} \cup Digits), 3, 3),
          WordBoundary>>),
       score |-> 60],
      [regex |-> Cat(<<WordBoundary,
          Rep(Cls(UpperLetters \cup LowerLetters \cup {CapitalIDot} \cup {"9"}), 5, 5), D(7),
          Rep(Cls(UpperLetters \cup LowerLetters \cup {CapitalIDot} \cup {"9"}), 2, 2),
          Rep(Cls(UpperLetters \cup LowerLetters \cup {CapitalIDot} \cup Digits), 5, 5),
          WordBoundary>>),
       score |-> 70],
      [regex |-> Cat(<<WordBoundary,
          Rep(Cls(UpperLetters \cup LowerLetters \cup {CapitalIDot} \cup {"9"}), 5, 5),
          Cls(Digits), Alt(<<Cat(<<LitI(<<"0">>), Cls({"1", "2", "3", "4", "5", "6", "7", "8",
          "9"})>>), Cat(<<LitI(<<"1">>), Cls({"0", "1", "2"})>>), Cat(<<LitI(<<"5">>),
          Cls({"1", "2", "3", "4", "5", "6", "7", "8", "9"})>>), Cat(<<LitI(<<"6">>), Cls({"0",
          "1", "2"})>>)>>), Alt(<<Cat(<<LitI(<<"0">>), Cls({"1", "2", "3", "4", "5", "6", "7",
          "8", "9"})>>), Cat(<<Cls({"1", "2"}), Cls(Digits)>>), Cat(<<LitI(<<"3">>), Cls({"0",
          "1"})>>)>>), Cls(Digits),
          Rep(Cls(UpperLetters \cup LowerLetters \cup {CapitalIDot} \cup {"9"}), 2, 2),
          Rep(Cls(UpperLetters \cup LowerLetters \cup {CapitalIDot} \cup Digits), 2, 5),
          WordBoundary>>),
       score |-> 80]>>

UKCONTEXT ==
    <<<<"d", "r", "i", "v", "e", "r", "'", "s", " ", "l", "i", "c", "e", "n", "c", "e">>,
      <<"d", "r", "i", "v", "i", "n", "g", " ", "l", "i", "c", "e", "n", "c", "e">>,
      <<"l", "i", "c", "e", "n", "c", "e", " ", "n", "u", "m", "b", "e", "r">>,
      <<"U", "K", " ", "l", "i", "c", "e", "n", "s", "e">>,
      <<"U", "K", " ", "d", "r", "i", "v", "i", "n", "g", " ", "l", "i", "c", "e", "n", "c", "e">>,
      <<"D", "V", "L", "A">>,
      <<"d", "r", "i", "v", "e", "r", " ", "l", "i", "c", "e", "n", "s", "e">>,
      <<"d", "r", "i", "v", "i", "n", "g", " ", "l", "i", "c", "e", "n", "s", "e">>,
      <<"l", "i", "c", "e", "n", "c", "e", " ", "c", "a", "r", "d">>,
      <<"p", "h", "o", "t", "o", "c", "a", "r", "d", " ", "l", "i", "c", "e", "n", "c", "e">>>>

\* (datetime.now().year // 100) * 100
Century == 2000

\* int(s) of a string; "raises" unless it is a numeral
RECURSIVE IntOf(_)
IntOf(cs) == IF cs = <<>> THEN 0 ELSE 10 * IntOf(SubSeq(cs, 1, Len(cs) - 1)) + DigitValue(cs[Len(cs)])

IsLeap(y) == (y % 4 = 0 /\ y % 100 # 0) \/ y % 400 = 0

DaysInMonth(y, m) ==
    IF m = 2 THEN (IF IsLeap(y) THEN 29 ELSE 28)
    ELSE IF m \in {4, 6, 9, 11} THEN 30 ELSE 31

\* datetime(year, month, day) does not raise
IsDate(y, m, d) == m \in 1..12 /\ d \in 1..DaysInMonth(y, m)

\* UKDriversLicenseRecognizer.validate_result(pattern_result) for a string
UK_validate_result(pattern_text) ==
    LET text_upper == Upper(Strip(pattern_text))
        surname == UpperLetters \cup {"9"}
        at(i) == text_upper[i + 1]
        month_num == IntOf(Slice(text_upper, 6, 8))
        full_year == Century + DigitValue(at(5)) * 10 + DigitValue(at(10))
    IN  IF Len(text_upper) \notin {16, 18} THEN FALSE
        ELSE IF \E i \in 0..4 : at(i) \notin surname THEN FALSE
        ELSE IF ~IsDigit(Slice(text_upper, 5, 11)) THEN FALSE
        ELSE IF ~IsDate(full_year, IF month_num >= 51 THEN month_num - 50 ELSE month_num,
                        IntOf(Slice(text_upper, 8, 10))) THEN FALSE
        ELSE \A i \in 11..12 : at(i) \in surname

UKValidateHook(pattern_text) == IF UK_validate_result(pattern_text) THEN "True" ELSE "False"

\* UKDriversLicenseRecognizer.enhance_confidence(text, pattern_result)
UK_enhance_confidence(tx, r) ==
    LET context_window == 50
        surrounding_text == Lower(Slice(tx, Max(0, r.start - context_window),
                                        Min(Len(tx), r.end + context_window)))
        keyword_present == AnyIn(UKCONTEXT, surrounding_text)
        is_valid == UK_validate_result(Slice(tx, r.start, r.end))
        new_score ==
            IF keyword_present /\ ~is_valid THEN Min(r.score, 65)
            ELSE IF ~keyword_present /\ is_valid THEN Max(r.score, 75)
            ELSE IF keyword_present /\ is_valid THEN Min(Max(r.score + 25, 85), 100)
            ELSE (r.score * 60) \div 100
    IN  Judged(r, new_score > 40, keyword_present, new_score)

\* UKDriversLicenseRecognizer.analyze(text, entities)
UK_analyze(tx) ==
    LET parent_results ==
            ParentAnalyze(UKPATTERNS, tx, "UK_DRIVERS_LICENSE", UKValidateHook, NoHook)
    IN  [k \in 1..Len(parent_results) |-> UK_enhance_confidence(tx, parent_results[k])]

\* ------------------------------------------------------------ the calls
ContextRecognizers ==
    {"SpainIBANRecognizer", "FranceIBANRecognizer", "UKDriversLicenseRecognizer"}

MaxContextTokens == 2

\* what a text is put together from: candidates, keywords in several cases, a word
ContextTokens(r) ==
    CASE r = "SpainIBANRecognizer" ->
           {<<"E", "S", "9", "1", "2", "1", "0", "0", "0", "4", "1", "8", "4", "5", "0", "2", "0", "0", "0", "5", "1", "3", "3", "2">>,
            <<"E", "S", "9", "1", "2", "1", "0", "0", "0", "4", "1", "8", "4", "5", "0", "2", "0", "0", "0", "5", "1", "3", "3", "3">>,
            <<"E", "S", "9", "1", " ", "2", "1", "0", "0", " ", "0", "4", "1", "8", " ", "4", "5", "0", "2", " ", "0", "0", "0", "5", " ", "1", "3", "3", "2">>,
            <<"I", "B", "A", "N">>,
            <<"i", "b", "a", "n">>,
            <<"b", "a", "n", "k", " ", "a", "c", "c", "o", "u", "n", "t">>,
            <<"B", "a", "n", "k", " ", "A", "c", "c", "o", "u", "n", "t">>,
            <<"x">>}
      [] r = "FranceIBANRecognizer" ->
           {<<"F", "R", "1", "4", "2", "0", "0", "4", "1", "0", "1", "0", "0", "5", "0", "5", "0", "0", "0", "1", "3", "M", "0", "2", "6", "0", "6">>,
            <<"F", "R", "1", "4", "2", "0", "0", "4", "1", "0", "1", "0", "0", "5", "0", "5", "0", "0", "0", "1", "3", "M", "0", "2", "6", "0", "7">>,
            <<"F", "R", "1", "4", " ", "2", "0", "0", "4", " ", "1", "0", "1", "0", " ", "0", "5", "0", "5", " ", "0", "0", "0", "1", " ", "3", "M", "0", "2", " ", "6", "0", "6">>,
            <<"I", "B", "A", "N">>,
            <<"i", "b", "a", "n">>,
            <<"i", "d", "e", "n", "t", "i", "f", "i", "a", "n", "t", " ", "b", "a", "n", "c", "a", "i", "r", "e">>,
            <<"C", "o", "d", "e", " ", "I", "B", "A", "N">>,
            <<"x">>}
      [] r = "UKDriversLicenseRecognizer" ->
           {<<"M", "O", "R", "G", "A", "6", "5", "7", "0", "5", "4", "S", "M", "9", "I", "J">>,
            <<"M", "O", "R", "G", "A", "6", "1", "3", "0", "5", "4", "S", "M", "9", "I", "J">>,
            <<"m", "o", "r", "g", "a", "6", "5", "7", "0", "5", "4", "s", "m", "9", "i", "j">>,
            <<"D", "V", "L", "A">>,
            <<"d", "v", "l", "a">>,
            <<"d", "r", "i", "v", "i", "n", "g", " ", "l", "i", "c", "e", "n", "c", "e">>,
            <<"D", "r", "i", "v", "i", "n", "g", " ", "L", "i", "c", "e", "n", "c", "e">>,
            <<"x">>}

ContextTexts(r) == {JoinWith(<<" ">>, l) : l \in ListsUpTo(ContextTokens(r), MaxContextTokens)}

InitContext ==
    /\ recognizer \in ContextRecognizers
    /\ pc = "start"
    /\ text \in ContextTexts(recognizer)
    /\ vocab = <<>>
    /\ entities = {}
    /\ collected = <<>>
    /\ returned = <<>>
    /\ FilterIdle
    /\ CheckIdle

\* the call ends: what was judged, and the list handed back
FinishJudged(judged, entity_type) ==
    /\ collected' = judged
    /\ returned' = KeptResults(judged, entity_type)
    /\ pc' = "returned"
    /\ UNCHANGED <<recognizer, text, vocab, entities, filterVars, checkVars>>

AnalyzeSpain ==
    /\ pc = "start"
    /\ recognizer = "SpainIBANRecognizer"
    /\ FinishJudged(Spain_analyze(text), "SPAIN_IBAN")

AnalyzeFrance ==
    /\ pc = "start"
    /\ recognizer = "FranceIBANRecognizer"
    /\ FinishJudged(France_analyze(text), "FRANCE_IBAN")

AnalyzeUK ==
    /\ pc = "start"
    /\ recognizer = "UKDriversLicenseRecognizer"
    /\ FinishJudged(UK_analyze(text), "UK_DRIVERS_LICENSE")

NextContext == AnalyzeSpain \/ AnalyzeFrance \/ AnalyzeUK

SpecContext == InitContext /\ [][NextContext]_vars

\* ------------------------------------------------------------ claims C11, C16
\* C11: SpainIBANRecognizer.analyze returns a result (score 0.8 or 1.0) for a
\* candidate only if its normalized 24-character form, the first four characters
\* moved to the end and the letters replaced by their two-digit values, is
\* congruent to 1 modulo 97.
C11_SpainResultsPassMod97 ==
    (pc = "returned" /\ recognizer = "SpainIBANRecognizer") =>
        \A i \in 1..Len(returned) :
            LET normalized == normalize_iban(Slice(text, returned[i].start, returned[i].end))
            IN  /\ Len(normalized) = 24
                /\ ReferenceRemainder(ReferenceMoved(normalized), 0) = 1

\* the keywords as configured, and the region of the text each recognizer examines
ConfiguredKeywords(r) ==
    CASE r = "SpainIBANRecognizer" -> SpainCONTEXT
      [] r = "FranceIBANRecognizer" -> FranceCONTEXT
      [] r = "UKDriversLicenseRecognizer" -> UKCONTEXT

ExaminedRegion(r, tx, j) ==
    IF r = "UKDriversLicenseRecognizer"
    THEN SubSeq(tx, Max(0, j.start - 50) + 1, Min(Len(tx), j.end + 50))
    ELSE tx

\* k occurs in the region, letter case disregarded
OccursIgnoringCase(k, region) ==
    \E p \in 1..(Len(region) - Len(k) + 1) :
        \A i \in 1..Len(k) : Lower(<<region[p + i - 1]>>) = Lower(<<k[i]>>)

\* C16: context keyword matching is case-insensitive: for every configured
\* keyword k and every text that holds k in any letter case inside the examined
\* region, the recognizer treats context as present (SpainIBANRecognizer and
\* FranceIBANRecognizer on candidates they judge valid, UKDriversLicenseRecognizer
\* in enhance_confidence).
C16_KeywordsCaseInsensitive ==
    (pc = "returned" /\ recognizer \in ContextRecognizers) =>
        \A n \in 1..Len(collected) :
            LET j == collected[n]
                keywords == ConfiguredKeywords(recognizer)
            IN  (/\ j.kept /\ j.score > 0
                 /\ \E i \in 1..Len(keywords) :
                        OccursIgnoringCase(keywords[i], ExaminedRegion(recognizer, text, j)))
                => j.keyword_present

\* ============================================================ scoring tables
\* Recognizers that give a candidate a score from its validity and from the
\* presence of a context keyword. The scores of a Verdict are in thousandths, so
\* that 0.85 * 0.5 is a whole number.
Milli(score) == 10 * score

\* what analyze made of one candidate
Verdict(r, validity, has_context, score, kept) ==
    [start |-> r.start, end |-> r.end, validity |-> validity,
     has_context |-> has_context, score |-> score, kept |-> kept]

\* text[max(0, start - window):min(len(text), end + window)]
Window(tx, start, end, window) ==
    Slice(tx, Max(0, start - window), Min(Len(tx), end + window))

\* any(keyword.lower() in region.lower() for keyword in CONTEXT)
LoweredKeywordIn(keywords, region) ==
    LET lowered == Lower(region)
    IN  \E k \in 1..Len(keywords) : Contains(Lower(keywords[k]), lowered)

\* ------------------------------------------------------------ SwedenNationalIDRecognizer
SwedenPATTERNS ==
    <<[regex |-> Cat(<<WordBoundary, Opt(Alt(<<LitI(<<"1", "9">>), LitI(<<"2", "0">>)>>)), D(2),
          Alt(<<Cat(<<LitI(<<"0">>), Cls({"1", "2", "3", "4", "5", "6", "7", "8", "9"})>>),
          Cat(<<LitI(<<"1">>), Cls({"0", "1", "2"})>>)>>), Alt(<<Cat(<<LitI(<<"0">>), Cls({"1",
          "2", "3", "4", "5", "6", "7", "8", "9"})>>), Cat(<<Cls({"1", "2"}), Cls(Digits)>>),
          Cat(<<LitI(<<"3">>), Cls({"0", "1"})>>)>>), Opt(Cls(SpaceChars \cup {"-", "+"})),
          D(4), WordBoundary>>),
       score |-> 100]>>

SwedenCONTEXT ==
    <<<<"i", "d", " ", "n", "o">>,
      <<"i", "d", " ", "n", "u", "m", "b", "e", "r">>,
      <<"i", "d", "#">>,
      <<"i", "d", "e", "n", "t", "i", "f", "i", "c", "a", "t", "i", "o", "n", " ", "n", "o">>,
      <<"i", "d", "e", "n", "t", "i", "f", "i", "c", "a", "t", "i", "o", "n", " ", "n", "u", "m", "b", "e", "r">>,
      <<"i", "d", "e", "n", "t", "i", "f", "i", "k", "a", "t", "i", "o", "n", "s", "n", "u", "m", "r", "e", "t", "#">>,
      <<"i", "d", "e", "n", "t", "i", "f", "i", "k", "a", "t", "i", "o", "n", "s", "n", "u", "m", "r", "e", "t">>,
      <<"i", "d", "e", "n", "t", "i", "t", "e", "t", "s", "h", "a", "n", "d", "l", "i", "n", "g">>,
      <<"i", "d", "e", "n", "t", "i", "t", "y", " ", "d", "o", "c", "u", "m", "e", "n", "t">>,
      <<"i", "d", "e", "n", "t", "i", "t", "y", " ", "n", "o">>,
      <<"i", "d", "e", "n", "t", "i", "t", "y", " ", "n", "u", "m", "b", "e", "r">>,
      <<"i", "d", "-", "n", "u", "m", "m", "e", "r">>,
      <<"p", "e", "r", "s", "o", "n", "a", "l", " ", "i", "d">>,
      <<"p", "e", "r", "s", "o", "n", "n", "u", "m", "m", "e", "r", "#">>,
      <<"p", "e", "r", "s", "o", "n", "n", "u", "m", "m", "e", "r">>,
      <<"s", "k", "a", "t", "t", "e", "i", "d", "e", "n", "t", "i", "f", "i", "k", "a", "t", "i", "o", "n", "s", "n", "u", "m", "m", "e", "r">>>>

\* SwedenNationalIDRecognizer._is_valid_checksum(national_id)
Sweden_is_valid_checksum(national_id) ==
    IF Len(national_id) < 10 THEN FALSE
    ELSE LET check_digits == SubSeq(national_id, Len(national_id) - 9, Len(national_id))
         IN  LuhnCheckTotal(Reverse(check_digits), 0) % 10 = 0

\* SwedenNationalIDRecognizer.analyze(text, entities): every result is returned
Sweden_analyze(tx) ==
    LET parent_results == ParentAnalyze(SwedenPATTERNS, tx, "SWEDEN_NATIONAL_ID", NoHook, NoHook)
        keyword == KeywordInLowered(SwedenCONTEXT, tx)
        judge(r) ==
            LET cleaned_national_id ==
                    SelectSeq(Slice(tx, r.start, r.end),
                              LAMBDA c : c \notin ({"-", "+"} \cup SpaceChars))
            IN  IF Sweden_is_valid_checksum(cleaned_national_id)
                THEN Verdict(r, "valid", keyword, IF keyword THEN 1000 ELSE 700, TRUE)
                ELSE Verdict(r, "invalid", keyword, 0, TRUE)
    IN  [k \in 1..Len(parent_results) |-> judge(parent_results[k])]

\* ------------------------------------------------------------ GermanIDCardRecognizer
GermanIDPATTERNS ==
    <<[regex |-> Cat(<<WordBoundary, Cls({"L", "M", "N", "l", "m", "n", "P", "Q", "R", "S", "T", "p",
          "q", "r", "s", "t", "v", "V", "w", "W", "x", "X", "y", "Y"}),
          Rep(Cls(Digits \cup {"c", "C", "f", "F", "g", "G", "h", "H", "j", "J", "k", "K", "l",
          "L", "m", "M", "n", "N", "p", "P", "r", "R", "t", "T", "v", "V", "w", "W", "x", "X",
          "y", "Y", "z", "Z"}), 8, 8), Opt(Cls(Digits \cup {"c", "C", "f", "F", "g", "G", "h",
          "H", "j", "J", "k", "K", "l", "L", "m", "M", "n", "N", "p", "P", "r", "R", "t", "T",
          "v", "V", "w", "W", "x", "X", "y", "Y", "z", "Z"})), Opt(Cls({"d", "D"})),
          WordBoundary>>),
       score |-> 85],
      [regex |-> Cat(<<WordBoundary, D(10), WordBoundary>>),
       score |-> 85]>>

GermanIDCONTEXT ==
    <<<<"a", "u", "s", "w", "e", "i", "s">>,
      <<"g", "p", "i", "d">>,
      <<"i", "d", "e", "n", "t", "i", "f", "i", "c", "a", "t", "i", "o", "n">>,
      <<"i", "d", "e", "n", "t", "i", "f", "i", "k", "a", "t", "i", "o", "n">>,
      <<"i", "d", "e", "n", "t", "i", "f", "i", "z", "i", "e", "r", "u", "n", "g", "s", "n", "u", "m", "m", "e", "r">>,
      <<"i", "d", "e", "n", "t", "i", "t", "y", " ", "c", "a", "r", "d">>,
      <<"i", "d", "e", "n", "t", "i", "t", "y", " ", "n", "u", "m", "b", "e", "r">>,
      <<"i", "d", "-", "n", "u", "m", "m", "e", "r">>,
      <<"p", "e", "r", "s", "o", "n", "a", "l", " ", "i", "d">>,
      <<"p", "e", "r", "s", "o", "n", "a", "l", "a", "u", "s", "w", "e", "i", "s">>,
      <<"p", "e", "r", "s", "o-umlaut", "n", "l", "i", "c", "h", "e", " ", "i", "d", " ", "n", "u", "m", "m", "e", "r">>,
      <<"p", "e", "r", "s", "o-umlaut", "n", "l", "i", "c", "h", "e", " ", "i", "d", "e", "n", "t", "i", "f", "i", "k", "a", "t", "i", "o", "n", "s", "n", "u", "m", "m", "e", "r">>,
      <<"p", "e", "r", "s", "o-umlaut", "n", "l", "i", "c", "h", "e", "-", "i", "d", "-", "n", "u", "m", "m", "e", "r">>>>

\* GermanIDCardRecognizer._validate_checksum(id_card_number): a placeholder
GermanID_validate_checksum(id_card_number) == TRUE

\* GermanIDCardRecognizer._has_context(text, start, end), window_size = 300
GermanID_has_context(tx, start, end) ==
    LoweredKeywordIn(GermanIDCONTEXT, Window(tx, start, end, 300))

\* GermanIDCardRecognizer.analyze(text, entities)
GermanID_analyze(tx) ==
    LET parent_results ==
            ParentAnalyze(GermanIDPATTERNS, tx, "DE_Germany_ID_Card", NoHook, NoHook)
        judge(r) ==
            LET has_context == GermanID_has_context(tx, r.start, r.end)
                valid == GermanID_validate_checksum(Slice(tx, r.start, r.end))
            IN  Verdict(r, IF valid THEN "valid" ELSE "invalid", has_context,
                        IF has_context /\ valid THEN Min(Milli(r.score) + 150, 1000)
                        ELSE Milli(r.score) \div 2,
                        TRUE)
    IN  [k \in 1..Len(parent_results) |-> judge(parent_results[k])]

\* ------------------------------------------------------------ CreditCardRecognizer (45/67)
Card4567PATTERNS ==
    <<[regex |-> Cat(<<WordBoundary, Alt(<<LitI(<<"4", "5">>), LitI(<<"6", "7">>)>>), D(2),
          Rep(Cat(<<Opt(Cls(SpaceChars \cup {"-"})), D(4)>>), 3, 3), WordBoundary>>),
       score |-> 50],
      [regex |-> Cat(<<WordBoundary, Alt(<<LitI(<<"4", "5">>), LitI(<<"6", "7">>)>>), D(14),
          WordBoundary>>),
       score |-> 50]>>

Card4567CONTEXT ==
    <<<<"c", "r", "e", "d", "i", "t", " ", "c", "a", "r", "d">>,
      <<"c", "a", "r", "d", " ", "n", "u", "m", "b", "e", "r">>,
      <<"p", "a", "y", "m", "e", "n", "t", " ", "c", "a", "r", "d">>,
      <<"C", "C", "N">>,
      <<"c", "c", "n">>,
      <<"c", "a", "r", "d", "h", "o", "l", "d", "e", "r">>,
      <<"c", "a", "r", "d", " ", "d", "e", "t", "a", "i", "l", "s">>,
      <<"b", "a", "n", "k", " ", "c", "a", "r", "d">>,
      <<"v", "i", "s", "a">>,
      <<"m", "a", "s", "t", "e", "r", "c", "a", "r", "d">>>>

\* text.find(sub): the first offset where sub occurs, -1 when there is none
Find(tx, sub) ==
    IF Contains(sub, tx)
    THEN CHOOSE i \in 0..(Len(tx) - Len(sub)) :
             /\ SubSeq(tx, i + 1, i + Len(sub)) = sub
             /\ \A j \in 0..(i - 1) : SubSeq(tx, j + 1, j + Len(sub)) # sub
    ELSE -1

\* CreditCardRecognizer._has_context(text, card_number): the window is taken around
\* the first occurrence of the number, lower-cased; the keywords are taken as written
Card4567_has_context(tx, card_number) ==
    LET start_pos == Find(tx, card_number)
    IN  IF start_pos = -1 THEN FALSE
        ELSE AnyIn(Card4567CONTEXT,
                   Lower(Slice(tx, Max(0, start_pos - 50),
                               Min(Len(tx), start_pos + Len(card_number) + 50))))

\* CreditCardRecognizer._is_valid_checksum(card_number)
Card4567_is_valid_checksum(card_number) ==
    LuhnCheckTotal(Reverse(card_number), 0) % 10 = 0

\* CreditCardRecognizer.analyze(text, entities): only valid numbers are returned
Card4567_analyze(tx) ==
    LET parent_results ==
            ParentAnalyze(Card4567PATTERNS, tx, "45_67_CREDIT_CARD", NoHook, NoHook)
        judge(r) ==
            LET original_card_number == Slice(tx, r.start, r.end)
                cleaned_card_number == OnlyDigits(original_card_number)
                has_context == Card4567_has_context(tx, original_card_number)
            IN  IF Len(cleaned_card_number) # 16
                   \/ SubSeq(cleaned_card_number, 1, 2) \notin {<<"4", "5">>, <<"6", "7">>}
                THEN Verdict(r, "invalid", FALSE, Milli(r.score), FALSE)
                ELSE IF Card4567_is_valid_checksum(cleaned_card_number)
                THEN Verdict(r, "valid", has_context, IF has_context THEN 900 ELSE 700, TRUE)
                ELSE Verdict(r, "invalid", FALSE, Milli(r.score), FALSE)
    IN  [k \in 1..Len(parent_results) |-> judge(parent_results[k])]

\* ------------------------------------------------------------ SSN_Formatted_Unformatted_Recognizer
SSNFU_PATTERNS ==
    <<[regex |-> Cat(<<WordBoundary, D(3), LitI(<<"-">>), D(2), LitI(<<"-">>), D(4), WordBoundary>>),
       score |-> 85],
      [regex |-> Cat(<<WordBoundary, D(3), LitI(<<" ">>), D(2), LitI(<<" ">>), D(4), WordBoundary>>),
       score |-> 85],
      [regex |-> Cat(<<WordBoundary, D(9), WordBoundary>>),
       score |-> 50]>>

SSNFU_CONTEXT ==
    <<<<"s", "o", "c", "i", "a", "l", " ", "s", "e", "c", "u", "r", "i", "t", "y", " ", "n", "u", "m", "b", "e", "r">>,
      <<"s", "s", "a", " ", "n", "u", "m", "b", "e", "r">>,
      <<"s", "o", "c", "i", "a", "l", " ", "s", "e", "c", "u", "r", "i", "t", "y">>,
      <<"s", "s", "n">>,
      <<"s", "s", "n", "#">>,
      <<"s", "o", "c", "i", "a", "l", " ", "s", "e", "c", "u", "r", "i", "t", "y", "#">>,
      <<"s", "e", "c", "u", "r", "i", "t", "y", " ", "n", "u", "m", "b", "e", "r">>,
      <<"s", "s", " ", "n", "u", "m", "b", "e", "r">>,
      <<"s", "s", "n", " ", "n", "o">>,
      <<"s", "o", "c", "i", "a", "l", " ", "s", "e", "c", "u", "r", "i", "t", "y", " ", "n", "o">>,
      <<"s", "s", "n", " ", "i", "d">>,
      <<"s", "o", "c", "i", "a", "l", " ", "s", "e", "c", "u", "r", "i", "t", "y", " ", "i", "d">>>>

\* the list without its first entry
known_invalids_without_123456789 ==
    {<<"0", "7", "8", "0", "5", "1", "1", "2", "0">>,
      <<"1", "1", "1", "1", "1", "1", "1", "1", "1">>,
      <<"9", "9", "9", "9", "9", "9", "9", "9", "9">>,
      <<"0", "0", "0", "0", "0", "0", "0", "0", "0">>,
      <<"1", "2", "3", "1", "2", "3", "1", "2", "3">>,
      <<"4", "5", "6", "4", "5", "6", "4", "5", "6">>,
      <<"7", "8", "9", "7", "8", "9", "7", "8", "9">>,
      <<"0", "1", "2", "3", "4", "5", "6", "7", "8">>,
      <<"9", "8", "7", "6", "5", "4", "3", "2", "1">>,
      <<"1", "1", "1", "2", "2", "3", "3", "3", "3">>,
      <<"2", "2", "2", "3", "3", "4", "4", "4", "4">>,
      <<"3", "3", "3", "4", "4", "5", "5", "5", "5">>,
      <<"4", "4", "4", "5", "5", "6", "6", "6", "6">>,
      <<"5", "5", "5", "6", "6", "7", "7", "7", "7">>,
      <<"6", "6", "6", "7", "7", "8", "8", "8", "8">>,
      <<"7", "7", "7", "8", "8", "9", "9", "9", "9">>,
      <<"8", "8", "8", "9", "9", "0", "0", "0", "0">>,
      <<"9", "9", "9", "0", "0", "1", "1", "1", "1">>}

\* known_invalids of _check_validity
known_invalids ==
    {<<"1", "2", "3", "4", "5", "6", "7", "8", "9">>,
      <<"0", "7", "8", "0", "5", "1", "1", "2", "0">>,
      <<"1", "1", "1", "1", "1", "1", "1", "1", "1">>,
      <<"9", "9", "9", "9", "9", "9", "9", "9", "9">>,
      <<"0", "0", "0", "0", "0", "0", "0", "0", "0">>,
      <<"1", "2", "3", "1", "2", "3", "1", "2", "3">>,
      <<"4", "5", "6", "4", "5", "6", "4", "5", "6">>,
      <<"7", "8", "9", "7", "8", "9", "7", "8", "9">>,
      <<"0", "1", "2", "3", "4", "5", "6", "7", "8">>,
      <<"9", "8", "7", "6", "5", "4", "3", "2", "1">>,
      <<"1", "1", "1", "2", "2", "3", "3", "3", "3">>,
      <<"2", "2", "2", "3", "3", "4", "4", "4", "4">>,
      <<"3", "3", "3", "4", "4", "5", "5", "5", "5">>,
      <<"4", "4", "4", "5", "5", "6", "6", "6", "6">>,
      <<"5", "5", "5", "6", "6", "7", "7", "7", "7">>,
      <<"6", "6", "6", "7", "7", "8", "8", "8", "8">>,
      <<"7", "7", "7", "8", "8", "9", "9", "9", "9">>,
      <<"8", "8", "8", "9", "9", "0", "0", "0", "0">>,
      <<"9", "9", "9", "0", "0", "1", "1", "1", "1">>}

\* SSN_Formatted_Unformatted_Recognizer._has_context(text, start, end): the whole
\* text is searched
SSNFU_has_context(tx, start, end) == AnyIn(SSNFU_CONTEXT, Lower(tx))

\* SSN_Formatted_Unformatted_Recognizer._check_validity(pattern_text)
check_validity(pattern_text) ==
    LET only_digits == OnlyDigits(pattern_text)
        area == SubSeq(only_digits, 1, 3)
        group == SubSeq(only_digits, 4, 5)
        serial == SubSeq(only_digits, 6, 9)
        asc_seq == DigitSeq
        desc_seq == Reverse(DigitSeq)
        sequential(cs) == Contains(cs, asc_seq) \/ Contains(cs, desc_seq)
        area_num == IntOf(area)
    IN  IF Len(only_digits) # 9 THEN "invalid"
        ELSE IF \/ area = <<"0", "0", "0">>
                \/ group = <<"0", "0">>
                \/ serial = <<"0", "0", "0", "0">>
                \/ area = <<"6", "6", "6">>
                \/ area[1] = "9"
        THEN "invalid"
        ELSE IF only_digits \in known_invalids THEN "invalid"
        ELSE IF Cardinality(Range(only_digits)) = 1 THEN "suspicious"
        ELSE IF Cardinality(Range(only_digits)) <= 2 THEN "suspicious"
        ELSE IF sequential(only_digits) THEN "suspicious"
        ELSE IF \E i \in 0..2 : sequential(SubSeq(only_digits, i + 1, i + 7)) THEN "suspicious"
        ELSE IF SubSeq(only_digits, 1, 3) = SubSeq(only_digits, 4, 6)
                /\ SubSeq(only_digits, 4, 6) = SubSeq(only_digits, 7, 9)
        THEN "suspicious"
        ELSE IF ~(area_num \in 1..665 \/ area_num \in 667..899) THEN "invalid"
        ELSE "valid"

\* a scoring in which a missing keyword does not lower the score of a suspicious number
SSNFU_score_keyword_ignored(has_context, validity) ==
    IF has_context /\ validity = "valid" THEN 900
    ELSE IF ~has_context /\ validity = "valid" THEN 800
    ELSE IF validity = "suspicious" THEN 600
    ELSE IF has_context /\ validity = "invalid" THEN 400
    ELSE 300

\* the scoring branches of SSN_Formatted_Unformatted_Recognizer.analyze
SSNFU_score(has_context, validity) ==
    IF has_context /\ validity = "valid" THEN 900
    ELSE IF ~has_context /\ validity = "valid" THEN 800
    ELSE IF has_context /\ validity = "suspicious" THEN 600
    ELSE IF ~has_context /\ validity = "suspicious" THEN 500
    ELSE IF has_context /\ validity = "invalid" THEN 400
    ELSE 300

\* SSN_Formatted_Unformatted_Recognizer.analyze(text, entities): the results with
\* a score above 0.3 are returned
SSNFU_analyze(tx) ==
    LET parent_results ==
            ParentAnalyze(SSNFU_PATTERNS, tx, "US_formatted_unformatted_SSN", NoHook, NoHook)
        judge(r) ==
            LET has_context == SSNFU_has_context(tx, r.start, r.end)
                validity == check_validity(Slice(tx, r.start, r.end))
                score == SSNFU_score(has_context, validity)
            IN  Verdict(r, validity, has_context, score, score > 300)
    IN  [k \in 1..Len(parent_results) |-> judge(parent_results[k])]

\* ------------------------------------------------------------ UsSsnRecognizer
UsSsnPATTERNS ==
    <<[regex |-> Cat(<<WordBoundary, D(3), Opt(Cls({"-", " "})), D(2), Opt(Cls({"-", " "})), D(4),
          WordBoundary>>),
       score |-> 50],
      [regex |-> Cat(<<WordBoundary, D(9), WordBoundary>>),
       score |-> 50]>>

UsSsnCONTEXT ==
    <<<<"s", "o", "c", "i", "a", "l", " ", "s", "e", "c", "u", "r", "i", "t", "y", " ", "n", "u", "m", "b", "e", "r">>,
      <<"s", "o", "c", "i", "a", "l", " ", "s", "e", "c", "u", "r", "i", "t", "y">>,
      <<"s", "s", "n">>,
      <<"s", "s", "#">>,
      <<"s", "s", "n", "#">>,
      <<"s", "e", "c", "u", "r", "i", "t", "y", " ", "n", "u", "m", "b", "e", "r">>,
      <<"p", "a", "t", "i", "e", "n", "t", " ", "s", "o", "c", "i", "a", "l", " ", "s", "e", "c", "u", "r", "i", "t", "y", " ", "n", "u", "m", "b", "e", "r">>,
      <<"p", "a", "t", "i", "e", "n", "t", " ", "s", "s", "n">>,
      <<"p", "a", "t", "i", "e", "n", "t", "'", "s", " ", "s", "s", "n">>,
      <<"p", "a", "t", "i", "e", "n", "t">>>>

\* a window one character wider on each side
UsSsn_has_context_wider(tx, start, end) ==
    LoweredKeywordIn(UsSsnCONTEXT, Window(tx, start, end, 51))

\* UsSsnRecognizer._has_context(text, start, end), window_size = 50
UsSsn_has_context(tx, start, end) ==
    LoweredKeywordIn(UsSsnCONTEXT, Window(tx, start, end, 50))

\* UsSsnRecognizer.invalidate_result(pattern_text)
UsSsn_invalidate_result(pattern_text) ==
    LET only_digits == OnlyDigits(pattern_text)
    IN  IF Len(only_digits) # 9 THEN TRUE
        ELSE IF \A i \in 1..9 : only_digits[i] = only_digits[1] THEN TRUE
        ELSE IF \/ SubSeq(only_digits, 1, 3)
                     \in {<<"0", "0", "0">>, <<"6", "6", "6">>, <<"9", "0", "0">>}
                \/ SubSeq(only_digits, 4, 5) = <<"0", "0">>
                \/ SubSeq(only_digits, 6, 9) = <<"0", "0", "0", "0">>
        THEN TRUE
        ELSE only_digits \in {<<"1", "2", "3", "4", "5", "6", "7", "8", "9">>, <<"9", "8", "7", "6", "5", "4", "3", "2", "0">>, <<"0", "7", "8", "0", "5", "1", "1", "2", "0">>}

UsSsnInvalidateHook(pattern_text) ==
    IF UsSsn_invalidate_result(pattern_text) THEN "True" ELSE "False"

\* UsSsnRecognizer.analyze(text, entities)
UsSsn_analyze(tx) ==
    LET parent_results == ParentAnalyze(UsSsnPATTERNS, tx, "US_SSN", NoHook, UsSsnInvalidateHook)
        judge(r) ==
            LET has_context == UsSsn_has_context(tx, r.start, r.end)
            IN  Verdict(r, "valid", has_context,
                        IF has_context THEN Min(Milli(r.score) + 400, 1000)
                        ELSE Milli(r.score) \div 2,
                        TRUE)
    IN  [k \in 1..Len(parent_results) |-> judge(parent_results[k])]

\* ------------------------------------------------------------ HICNRecognizer
HICN_PATTERNS ==
    <<[regex |-> Cat(<<WordBoundary, D(3), Opt(Cls({"-", " "})), D(2), Opt(Cls({"-", " "})), D(4),
          Rep(Cls(UpperLetters \cup LowerLetters \cup {CapitalIDot} \cup Digits), 1, 2),
          WordBoundary>>),
       score |-> 50],
      [regex |-> Cat(<<WordBoundary, Cls({"1", "2", "3", "4", "5", "6", "7", "8", "9"}), Cls({"A",
          "B", "C", "a", "b", "c", "E", "F", "G", "H", "e", "f", "g", "h", "J", "K", "L", "M",
          "N", "j", "k", "l", "m", "n", "P", "Q", "R", "p", "q", "r", "T", "U", "V", "W", "t",
          "u", "v", "w", "y", "Y"}), Cls(Digits), Alt(<<Cat(<<Rep(Cls({"A", "B", "C", "a", "b",
          "c", "E", "F", "G", "H", "e", "f", "g", "h", "J", "K", "L", "M", "N", "j", "k", "l",
          "m", "n", "P", "Q", "R", "p", "q", "r", "T", "U", "V", "W", "t", "u", "v", "w", "y",
          "Y"}), 2, 2), Cls(Digits), Rep(Cls({"A", "B", "C", "a", "b", "c", "E", "F", "G", "H",
          "e", "f", "g", "h", "J", "K", "L", "M", "N", "j", "k", "l", "m", "n", "P", "Q", "R",
          "p", "q", "r", "T", "U", "V", "W", "t", "u", "v", "w", "y", "Y"}), 2, 2), D(2),
          WordBoundary>>), Cat(<<Opt(Cls({"-", " "})), Rep(Cls({"A", "B", "C", "a", "b", "c",
          "E", "F", "G", "H", "e", "f", "g", "h", "J", "K", "L", "M", "N", "j", "k", "l", "m",
          "n", "P", "Q", "R", "p", "q", "r", "T", "U", "V", "W", "t", "u", "v", "w", "y",
          "Y"}), 2, 2), Opt(Cls({"-", " "})), Cls(Digits), Opt(Cls({"-", " "})), Rep(Cls({"A",
          "B", "C", "a", "b", "c", "E", "F", "G", "H", "e", "f", "g", "h", "J", "K", "L", "M",
          "N", "j", "k", "l", "m", "n", "P", "Q", "R", "p", "q", "r", "T", "U", "V", "W", "t",
          "u", "v", "w", "y", "Y"}), 2, 2), Opt(Cls({"-", " "})), D(2), WordBoundary>>)>>)>>),
       score |-> 50]>>

HICN_CONTEXT ==
    <<<<"m", "e", "d", "i", "c", "a", "r", "e">>,
      <<"m", "e", "d", "i", "c", "a", "i", "d">>,
      <<"h", "e", "a", "l", "t", "h", " ", "i", "n", "s", "u", "r", "a", "n", "c", "e", " ", "c", "l", "a", "i", "m", " ", "n", "u", "m", "b", "e", "r">>,
      <<"h", "i", "c", "n">>,
      <<"m", "b", "i">>,
      <<"c", "m", "s">>,
      <<"m", "e", "d", "i", "c", "a", "r", "e", " ", "b", "e", "n", "e", "f", "i", "c", "i", "a", "r", "y">>,
      <<"s", "o", "c", "i", "a", "l", " ", "s", "e", "c", "u", "r", "i", "t", "y">>>>

\* re.fullmatch(pattern, s)
FullMatch(re, cs) == \E k \in 1..Len(Ends(re, cs, 0)) : Ends(re, cs, 0)[k] = Len(cs)

\* value.replace("-", "").replace(" ", "").upper()
HICN_normalized(value) == Upper(SelectSeq(value, LAMBDA c : c \notin {"-", " "}))

HICN_legacy_form ==
    Cat(<<D(9), Rep(Cls(UpperLetters \cup Digits), 1, 2)>>)

\* HICNRecognizer._has_context(text, result), window = 100
HICN_has_context(tx, r) == LoweredKeywordIn(HICN_CONTEXT, Window(tx, r.start, r.end, 100))

\* HICNRecognizer._is_valid_hicn(hicn)
is_valid_hicn(value) ==
    LET hicn == HICN_normalized(value)
        ssn == SubSeq(hicn, 1, 9)
    IN  IF ~FullMatch(HICN_legacy_form, hicn) THEN FALSE
        ELSE IF SubSeq(ssn, 1, 3) \in {<<"0", "0", "0">>, <<"6", "6", "6">>} \/ ssn[1] = "9"
        THEN FALSE
        ELSE IF SubSeq(ssn, 4, 5) = <<"0", "0">> \/ SubSeq(ssn, 6, 9) = <<"0", "0", "0", "0">>
        THEN FALSE
        ELSE TRUE

\* HICNRecognizer._is_valid_mbi(mbi)
is_valid_mbi(value) ==
    LET mbi == HICN_normalized(value)
        digits == OnlyDigits(mbi)
        pattern == Cat(<<AtStart, Cls({"1", "2", "3", "4", "5", "6", "7", "8", "9"}), Cls({"A", "B",
          "C", "E", "F", "G", "H", "J", "K", "L", "M", "N", "P", "Q", "R", "T", "U", "V", "W",
          "Y"}), Cls(Digits), Rep(Cls({"A", "B", "C", "E", "F", "G", "H", "J", "K", "L", "M",
          "N", "P", "Q", "R", "T", "U", "V", "W", "Y"}), 2, 2), Cls(Digits), Rep(Cls({"A", "B",
          "C", "E", "F", "G", "H", "J", "K", "L", "M", "N", "P", "Q", "R", "T", "U", "V", "W",
          "Y"}), 2, 2), D(2), AtEnd>>)
    IN  IF Len(mbi) # 11 THEN FALSE
        ELSE IF \E i \in 1..Len(mbi) : mbi[i] \in {"I", "O", "S", "L", "B", "Z"} THEN FALSE
        ELSE IF Ends(pattern, mbi, 0) = <<>> THEN FALSE
        ELSE IF digits = <<>>
                \/ SumSeq([i \in 1..Len(digits) |-> DigitValue(digits[i])]) % 10 = 0
        THEN FALSE
        ELSE TRUE

\* HICNRecognizer._compute_score(has_context, valid)
compute_score(has_context, valid) ==
    IF has_context /\ ~valid THEN 500
    ELSE IF ~has_context /\ valid THEN 800
    ELSE IF has_context /\ valid THEN 1000
    ELSE 400

\* HICNRecognizer.analyze(text, entities)
HICN_analyze(tx) ==
    LET base_results == ParentAnalyze(HICN_PATTERNS, tx, "HICN", NoHook, NoHook)
        judge(r) ==
            LET value == Strip(Slice(tx, r.start, r.end))
                valid == IF FullMatch(HICN_legacy_form, HICN_normalized(value))
                         THEN is_valid_hicn(value)
                         ELSE is_valid_mbi(value)
                context_found == HICN_has_context(tx, r)
            IN  Verdict(r, IF valid THEN "valid" ELSE "invalid", context_found,
                        compute_score(context_found, valid), TRUE)
    IN  [k \in 1..Len(base_results) |-> judge(base_results[k])]

\* ------------------------------------------------------------ ItalyFiscalCodeRecognizer
ItalyPATTERNS ==
    <<[regex |-> Cat(<<WordBoundary, Rep(Cls(UpperLetters \cup LowerLetters \cup {CapitalIDot}), 3,
          3), Opt(Cls({" ", "-"})), Rep(Cls(UpperLetters \cup LowerLetters \cup {CapitalIDot}),
          3, 3), Opt(Cls({" ", "-"})), D(2), Cls({"A", "B", "C", "D", "E", "a", "b", "c", "d",
          "e", "h", "H", "l", "L", "m", "M", "p", "P", "r", "R", "s", "S", "t", "T"}),
          Alt(<<Cat(<<Cls({"0", "4"}), Cls({"1", "2", "3", "4", "5", "6", "7", "8", "9"})>>),
          Cat(<<Cls({"1", "2", "5", "6"}), Cls(Digits)>>), Cat(<<Cls({"3", "7"}), Cls({"0",
          "1"})>>)>>), Opt(Cls({" ", "-"})), Cls({"A", "B", "C", "D", "E", "F", "G", "H", "I",
          "J", "K", "L", "M", "a", "b", "c", "d", "e", "f", "g", "h", "i", "j", "k", "l", "m",
          "z", "Z"}), D(3), Cls(UpperLetters \cup LowerLetters \cup {CapitalIDot}),
          WordBoundary>>),
       score |-> 30],
      [regex |-> Cat(<<AtStart, Rep(Cls({"B", "C", "D", "b", "c", "d", "F", "G", "H", "f", "g", "h",
          "J", "K", "L", "M", "N", "j", "k", "l", "m", "n", "P", "Q", "R", "S", "T", "p", "q",
          "r", "s", "t", "V", "W", "X", "Y", "Z", "v", "w", "x", "y", "z"}), 3, 3),
          Rep(Cls({"B", "C", "D", "b", "c", "d", "F", "G", "H", "f", "g", "h", "J", "K", "L",
          "M", "N", "j", "k", "l", "m", "n", "P", "Q", "R", "S", "T", "p", "q", "r", "s", "t",
          "V", "W", "X", "Y", "Z", "v", "w", "x", "y", "z"}), 3, 3), D(2), Cls({"A", "B", "C",
          "D", "E", "a", "b", "c", "d", "e", "h", "H", "l", "L", "m", "M", "p", "P", "R", "S",
          "T", "r", "s", "t"}), D(2), D(4), Cls(Digits), AtEnd>>),
       score |-> 30],
      [regex |-> Cat(<<Rep(Alt(<<Cat(<<Cls(UpperLetters \cup LowerLetters \cup {CapitalIDot}),
          Cls({"a", "A", "e", "E", "i", "I", "o", "O", "u", "U"}), Cls({"a", "A", "e", "E",
          "i", "I", "o", "O", "u", "U", "x", "X"})>>), Cat(<<Cls({"a", "A", "e", "E", "i", "I",
          "o", "O", "u", "U"}), Rep(LitI(<<"X">>), 2, 2)>>), Cat(<<Rep(Cls({"B", "C", "D", "b",
          "c", "d", "F", "G", "H", "f", "g", "h", "J", "K", "L", "M", "N", "j", "k", "l", "m",
          "n", "P", "Q", "R", "S", "T", "p", "q", "r", "s", "t", "V", "W", "X", "Y", "Z", "v",
          "w", "x", "y", "z"}), 2, 2),
          Cls(UpperLetters \cup LowerLetters \cup {CapitalIDot})>>)>>), 2, 2),
          Alt(<<Cat(<<Rep(Cls(Digits \cup {"l", "L", "m", "M", "n", "N", "P", "Q", "R", "S",
          "T", "U", "V", "p", "q", "r", "s", "t", "u", "v"}), 2, 2), Alt(<<Cat(<<Cls({"A", "B",
          "C", "D", "E", "a", "b", "c", "d", "e", "h", "H", "l", "L", "m", "M", "p", "P", "R",
          "S", "T", "r", "s", "t"}), Alt(<<Cat(<<Cls({"0", "4", "l", "L", "q", "Q"}), Cls({"1",
          "2", "3", "4", "5", "6", "7", "8", "9", "m", "M", "n", "N", "P", "Q", "R", "S", "T",
          "U", "V", "p", "q", "r", "s", "t", "u", "v"})>>), Cat(<<Cls({"1", "5", "m", "M", "r",
          "R"}), Cls(Digits \cup {"l", "L", "m", "M", "n", "N", "P", "Q", "R", "S", "T", "U",
          "V", "p", "q", "r", "s", "t", "u", "v"})>>), Cat(<<Cls({"2", "6", "n", "N", "s",
          "S"}), Cls({"0", "1", "2", "3", "4", "5", "6", "7", "8", "l", "L", "m", "M", "n",
          "N", "P", "Q", "R", "S", "T", "U", "p", "q", "r", "s", "t", "u"})>>)>>)>>),
          Cat(<<Cls({"d", "D", "h", "H", "p", "P", "s", "S"}), Cls({"3", "7", "p", "P", "t",
          "T"}), Cls({"0", "l", "L"})>>), Cat(<<Cls({"a", "A", "c", "C", "e", "E", "l", "L",
          "m", "M", "r", "R", "t", "T"}), Cls({"3", "7", "p", "P", "t", "T"}), Cls({"0", "1",
          "l", "L", "m", "M"})>>), Cat(<<Cls({"a", "A", "C", "D", "E", "c", "d", "e", "h", "H",
          "l", "L", "m", "M", "p", "P", "R", "S", "T", "r", "s", "t"}), Cls({"2", "6", "n",
          "N", "s", "S"}), Cls({"9", "v", "V"})>>)>>)>>), Cat(<<Alt(<<Cat(<<Cls({"0", "2", "4",
          "6", "8", "l", "L", "n", "N", "q", "Q", "s", "S", "u", "U"}), Cls({"0", "4", "8",
          "l", "L", "q", "Q", "u", "U"})>>), Cat(<<Cls({"1", "3", "5", "7", "9", "m", "M", "p",
          "P", "r", "R", "t", "T", "v", "V"}), Cls({"2", "6", "n", "N", "s", "S"})>>)>>),
          LitI(<<"B">>), Cls({"2", "6", "n", "N", "s", "S"}), Cls({"9", "v", "V"})>>)>>),
          Alt(<<Cat(<<Cls({"A", "B", "C", "D", "E", "F", "G", "H", "I", "J", "K", "L", "M",
          "a", "b", "c", "d", "e", "f", "g", "h", "i", "j", "k", "l", "m", "z", "Z"}),
          Cls({"1", "2", "3", "4", "5", "6", "7", "8", "9", "m", "M", "n", "N", "P", "Q", "R",
          "S", "T", "U", "V", "p", "q", "r", "s", "t", "u", "v"}), Rep(Cls(Digits \cup {"l",
          "L", "m", "M", "n", "N", "P", "Q", "R", "S", "T", "U", "V", "p", "q", "r", "s", "t",
          "u", "v"}), 2, 2)>>), Cat(<<Cls({"A", "B", "C", "D", "E", "F", "G", "H", "I", "J",
          "K", "L", "M", "a", "b", "c", "d", "e", "f", "g", "h", "i", "j", "k", "l", "m"}),
          Cls({"0", "l", "L"}), Alt(<<Cat(<<Cls({"1", "2", "3", "4", "5", "6", "7", "8", "9",
          "m", "M", "n", "N", "P", "Q", "R", "S", "T", "U", "V", "p", "q", "r", "s", "t", "u",
          "v"}), Cls(Digits \cup {"l", "L", "m", "M", "n", "N", "P", "Q", "R", "S", "T", "U",
          "V", "p", "q", "r", "s", "t", "u", "v"})>>), Cat(<<Cls({"0", "l", "L"}), Cls({"1",
          "2", "3", "4", "5", "6", "7", "8", "9", "m", "M", "n", "N", "P", "Q", "R", "S", "T",
          "U", "V", "p", "q", "r", "s", "t", "u", "v"})>>)>>)>>)>>),
          Cls(UpperLetters \cup LowerLetters \cup {CapitalIDot})>>),
       score |-> 30]>>

ItalyCONTEXT ==
    <<<<"c", "o", "d", "i", "c", "e", " ", "f", "i", "s", "c", "a", "l", "e">>,
      <<"f", "i", "s", "c", "a", "l", " ", "c", "o", "d", "e">>,
      <<"i", "t", "a", "l", "i", "a", "n", " ", "t", "a", "x", " ", "c", "o", "d", "e">>,
      <<"i", "t", "a", "l", "y", " ", "p", "e", "r", "s", "o", "n", "a", "l", " ", "c", "o", "d", "e">>,
      <<"c", "f">>,
      <<"t", "a", "x", " ", "c", "o", "d", "e">>,
      <<"i", "t", "a", "l", "i", "a", "n", " ", "f", "i", "s", "c", "a", "l", " ", "c", "o", "d", "e">>,
      <<"c", "f", ":">>,
      <<"c", "o", "d", "i", "c", "e", " ", "f", "i", "s", "c", "a", "l", "e", ":">>,
      <<"t", "a", "x", " ", "i", "d">>,
      <<"f", "i", "s", "c", "a", "l", " ", "i", "d">>,
      <<"c", "o", "d", ".", "f", "i", "s", "c", ".">>,
      <<"n", "u", "m", "e", "r", "o", " ", "f", "i", "s", "c", "a", "l", "e">>>>

\* ODD_VALUES of a letter (by its place in the alphabet) and of a digit
ODD_VALUES(c) ==
    LET letters == <<1, 0, 5, 7, 9, 13, 15, 17, 19, 21, 2, 4, 18, 20, 11, 3, 6, 8, 12, 14,
                     16, 10, 22, 25, 24, 23>>
        digits == <<1, 0, 5, 7, 9, 13, 15, 17, 19, 21>>
    IN  IF c \in UpperLetters THEN letters[CHOOSE i \in 1..26 : UpperSeq[i] = c]
        ELSE IF c \in Digits THEN digits[DigitValue(c) + 1]
        ELSE 0

\* EVEN_VALUES
EVEN_VALUES(c) ==
    IF c \in UpperLetters THEN (CHOOSE i \in 1..26 : UpperSeq[i] = c) - 1
    ELSE IF c \in Digits THEN DigitValue(c)
    ELSE 0

\* ItalyFiscalCodeRecognizer._validate_checksum(code)
Italy_validate_checksum(code) ==
    IF Len(code) # 16 THEN FALSE
    ELSE LET checksum_sum ==
                 SumSeq([i \in 1..15 |-> IF (i - 1) % 2 = 0 THEN ODD_VALUES(code[i])
                                         ELSE EVEN_VALUES(code[i])])
             checksum_char == UpperSeq[(checksum_sum % 26) + 1]
         IN  checksum_char = code[16]

\* ItalyFiscalCodeRecognizer.analyze(text, entities)
Italy_analyze(tx) ==
    LET parent_results == ParentAnalyze(ItalyPATTERNS, tx, "ITALY_FISCAL_CODE", NoHook, NoHook)
        has_context == LoweredKeywordIn(ItalyCONTEXT, tx)
        judge(r) ==
            LET code == SelectSeq(Upper(Slice(tx, r.start, r.end)),
                                  LAMBDA c : c \in UpperLetters \cup Digits)
                is_valid == Italy_validate_checksum(code)
            IN  Verdict(r, IF is_valid THEN "valid" ELSE "invalid", has_context,
                        IF is_valid /\ has_context THEN 900
                        ELSE IF is_valid /\ ~has_context THEN 750
                        ELSE IF ~is_valid /\ has_context THEN 600
                        ELSE 400,
                        TRUE)
    IN  [k \in 1..Len(parent_results) |-> judge(parent_results[k])]

\* ------------------------------------------------------------ the calls
BandRecognizers ==
    {"SwedenNationalIDRecognizer", "GermanIDCardRecognizer", "CreditCardRecognizer",
     "SSN_Formatted_Unformatted_Recognizer", "UsSsnRecognizer", "HICNRecognizer",
     "ItalyFiscalCodeRecognizer"}

MaxBandTokens == 2

\* what a text is put together from: candidates of each validity, keywords, a word
BandTokens(r) ==
    CASE r = "SwedenNationalIDRecognizer" ->
           {<<"8", "1", "1", "2", "2", "8", "-", "9", "8", "7", "4">>,
            <<"8", "1", "1", "2", "2", "8", "-", "9", "8", "7", "5">>,
            <<"1", "9", "8", "1", "1", "2", "2", "8", "9", "8", "7", "4">>,
            <<"p", "e", "r", "s", "o", "n", "n", "u", "m", "m", "e", "r">>,
            <<"P", "e", "r", "s", "o", "n", "n", "u", "m", "m", "e", "r">>,
            <<"x">>}
      [] r = "GermanIDCardRecognizer" ->
           {<<"L", "0", "1", "X", "0", "0", "T", "4", "7", "1">>,
            <<"1", "2", "3", "4", "5", "6", "7", "8", "9", "0">>,
            <<"l", "0", "1", "x", "0", "0", "t", "4", "7">>,
            <<"a", "u", "s", "w", "e", "i", "s">>,
            <<"A", "u", "s", "w", "e", "i", "s">>,
            <<"x">>}
      [] r = "CreditCardRecognizer" ->
           {<<"4", "5", "3", "9", "5", "7", "8", "7", "6", "3", "6", "2", "1", "4", "8", "6">>,
            <<"4", "5", "3", "9", "5", "7", "8", "7", "6", "3", "6", "2", "1", "4", "8", "7">>,
            <<"4", "5", "3", "9", " ", "5", "7", "8", "7", " ", "6", "3", "6", "2", " ", "1", "4", "8", "6">>,
            <<"c", "r", "e", "d", "i", "t", " ", "c", "a", "r", "d">>,
            <<"C", "C", "N">>,
            <<"x">>}
      [] r \in {"SSN_Formatted_Unformatted_Recognizer", "UsSsnRecognizer"} ->
           {<<"M", "y", " ", "S", "S", "N", " ", "i", "s">>,
            <<"1", "2", "3", "-", "4", "5", "-", "6", "7", "8", "9">>,
            <<"2", "1", "2", "-", "4", "5", "-", "6", "7", "8", "9">>,
            <<"1", "1", "2", "-", "1", "1", "-", "2", "2", "1", "1">>,
            <<"2", "1", "2", "4", "5", "6", "7", "8", "9">>,
            <<"x">>}
      [] r = "HICNRecognizer" ->
           {<<"1", "2", "3", "-", "4", "5", "-", "6", "7", "8", "9", "A">>,
            <<"0", "0", "0", "-", "4", "5", "-", "6", "7", "8", "9", "A">>,
            <<"1", "A", "2", "C", "E", "3", "F", "G", "4", "5">>,
            <<"m", "e", "d", "i", "c", "a", "r", "e">>,
            <<"M", "e", "d", "i", "c", "a", "r", "e">>,
            <<"x">>}
      [] r = "ItalyFiscalCodeRecognizer" ->
           {<<"R", "S", "S", "M", "R", "A", "8", "5", "T", "1", "0", "A", "5", "6", "2", "S">>,
            <<"R", "S", "S", "M", "R", "A", "8", "5", "T", "1", "0", "A", "5", "6", "2", "X">>,
            <<"r", "s", "s", "m", "r", "a", "8", "5", "t", "1", "0", "a", "5", "6", "2", "s">>,
            <<"c", "o", "d", "i", "c", "e", " ", "f", "i", "s", "c", "a", "l", "e">>,
            <<"C", "F">>,
            <<"x">>}

BandTexts(r) == {JoinWith(<<" ">>, l) : l \in ListsUpTo(BandTokens(r), MaxBandTokens)}

InitBands ==
    /\ recognizer \in BandRecognizers
    /\ pc = "start"
    /\ text \in BandTexts(recognizer)
    /\ vocab = <<>>
    /\ entities = {}
    /\ collected = <<>>
    /\ returned = <<>>
    /\ FilterIdle
    /\ CheckIdle

AnalyzeSweden ==
    /\ pc = "start"
    /\ recognizer = "SwedenNationalIDRecognizer"
    /\ FinishJudged(Sweden_analyze(text), "SWEDEN_NATIONAL_ID")

AnalyzeGermanID ==
    /\ pc = "start"
    /\ recognizer = "GermanIDCardRecognizer"
    /\ FinishJudged(GermanID_analyze(text), "DE_Germany_ID_Card")

AnalyzeCard4567 ==
    /\ pc = "start"
    /\ recognizer = "CreditCardRecognizer"
    /\ FinishJudged(Card4567_analyze(text), "45_67_CREDIT_CARD")

AnalyzeSSNFU ==
    /\ pc = "start"
    /\ recognizer = "SSN_Formatted_Unformatted_Recognizer"
    /\ FinishJudged(SSNFU_analyze(text), "US_formatted_unformatted_SSN")

AnalyzeUsSsn ==
    /\ pc = "start"
    /\ recognizer = "UsSsnRecognizer"
    /\ FinishJudged(UsSsn_analyze(text), "US_SSN")

AnalyzeHICN ==
    /\ pc = "start"
    /\ recognizer = "HICNRecognizer"
    /\ FinishJudged(HICN_analyze(text), "HICN")

AnalyzeItaly ==
    /\ pc = "start"
    /\ recognizer = "ItalyFiscalCodeRecognizer"
    /\ FinishJudged(Italy_analyze(text), "ITALY_FISCAL_CODE")

NextBands ==
    \/ AnalyzeSweden
    \/ AnalyzeGermanID
    \/ AnalyzeCard4567
    \/ AnalyzeSSNFU
    \/ AnalyzeUsSsn
    \/ AnalyzeHICN
    \/ AnalyzeItaly

SpecBands == InitBands /\ [][NextBands]_vars

\* ------------------------------------------------------------ claims C12, C13, C17
\* C12: in SwedenNationalIDRecognizer, GermanIDCardRecognizer and the 45/67
\* CreditCardRecognizer a candidate judged valid receives a score strictly greater
\* than 0.8 when a context keyword is present and strictly greater than 0.7 when
\* none is present.
C12_ValidRowBands ==
    (pc = "returned" /\ recognizer \in {"SwedenNationalIDRecognizer", "GermanIDCardRecognizer",
                                         "CreditCardRecognizer"})
    => \A k \in 1..Len(collected) :
           collected[k].validity = "valid"
           => IF collected[k].has_context THEN collected[k].score > 800
              ELSE collected[k].score > 700

SuspiciousOrInvalid(v) == v.validity \in {"suspicious", "invalid"}

InvalidRowRecognizers ==
    {"SSN_Formatted_Unformatted_Recognizer", "HICNRecognizer", "ItalyFiscalCodeRecognizer"}

\* C13 as stated: a candidate judged suspicious or invalid receives a score strictly
\* below 0.7 when a context keyword is present and strictly below 0.5 when none is
\* present (SSN_Formatted_Unformatted_Recognizer, HICNRecognizer,
\* ItalyFiscalCodeRecognizer).
C13_InvalidRowBands ==
    (pc = "returned" /\ recognizer \in InvalidRowRecognizers)
    => \A k \in 1..Len(collected) :
           SuspiciousOrInvalid(collected[k])
           => IF collected[k].has_context THEN collected[k].score < 700
              ELSE collected[k].score < 500

\* C13, amended: a candidate judged suspicious or invalid receives a score strictly
\* below 0.7 when a context keyword is present and at most 0.5 when none is present;
\* 0.5 is reached by a suspicious number without a keyword.
C13_InvalidRowBandsAtMost ==
    (pc = "returned" /\ recognizer \in InvalidRowRecognizers)
    => \A k \in 1..Len(collected) :
           SuspiciousOrInvalid(collected[k])
           => IF collected[k].has_context THEN collected[k].score < 700
              ELSE collected[k].score <= 500

\* a call that judged a suspicious number without a keyword and an invalid number
\* with one
C13_Witness ==
    /\ pc = "returned"
    /\ recognizer = "SSN_Formatted_Unformatted_Recognizer"
    /\ \E k \in 1..Len(collected) :
           /\ collected[k].validity = "suspicious"
           /\ ~collected[k].has_context
           /\ collected[k].score = 500
    /\ \E k \in 1..Len(collected) : collected[k].validity = "invalid"

EndToEndText ==
    <<"M", "y", " ", "S", "S", "N", " ", "i", "s", " ", "1", "2", "3", "-", "4", "5", "-", "6", "7", "8", "9">>

CanadaPATTERNS ==
    <<[regex |-> Cat(<<WordBoundary, D(3), Opt(Cls(SpaceChars \cup {"-"})), D(3),
          Opt(Cls(SpaceChars \cup {"-"})), D(3), WordBoundary>>),
       score |-> 90],
      [regex |-> Cat(<<WordBoundary, D(9), WordBoundary>>),
       score |-> 85]>>

CanadaCONTEXT ==
    <<<<"s", "o", "c", "i", "a", "l", " ", "i", "n", "s", "u", "r", "a", "n", "c", "e", " ", "n", "u", "m", "b", "e", "r">>,
      <<"S", "I", "N">>,
      <<"C", "a", "n", "a", "d", "a", " ", "S", "I", "N">>,
      <<"C", "a", "n", "a", "d", "i", "a", "n">>,
      <<"c", "a", "n", "a", "d", "a", " ", "s", "o", "c", "i", "a", "l", " ", "i", "n", "s", "u", "r", "a", "n", "c", "e", " ", "n", "u", "m", "b", "e", "r">>>>

\* CanadaSINRecognizer.validate_result(pattern_text)
Canada_validate_result(pattern_text) ==
    LET sin == SelectSeq(pattern_text, LAMBDA c : c \notin {" ", "-"})
    IN  IF Len(sin) # 9 \/ ~IsDigit(sin) THEN FALSE ELSE luhn_checksum(sin)

CanadaValidateHook(pattern_text) ==
    IF Canada_validate_result(pattern_text) THEN "True" ELSE "False"

\* CanadaSINRecognizer._has_context(text, start, end), window_size = 50
Canada_has_context(tx, start, end) ==
    LET pre_context == Lower(Slice(tx, Max(0, start - 50), start))
        post_context == Lower(Slice(tx, end, end + 50))
    IN  \E k \in 1..Len(CanadaCONTEXT) :
            \/ Contains(Lower(CanadaCONTEXT[k]), pre_context)
            \/ Contains(Lower(CanadaCONTEXT[k]), post_context)

\* the boost and the penalty without the two bounds
Canada_score_unbounded(score, has_context) ==
    IF has_context THEN score + 200 ELSE score - 100

\* result.score += 0.2 or -= 0.1, then min(..., 1.0) and max(..., 0.0)
Canada_score(score, has_context) ==
    Max(Min(IF has_context THEN score + 200 ELSE score - 100, 1000), 0)

\* CanadaSINRecognizer.analyze(text, entities)
Canada_analyze(tx) ==
    LET parent_results == ParentAnalyze(CanadaPATTERNS, tx, "CA_SIN", CanadaValidateHook, NoHook)
        judge(r) ==
            LET has_context == Canada_has_context(tx, r.start, r.end)
            IN  Verdict(r, "valid", has_context, Canada_score(Milli(r.score), has_context), TRUE)
    IN  [k \in 1..Len(parent_results) |-> judge(parent_results[k])]

\* ------------------------------------------------------------ CCTrackDataRecognizer
\* the patterns handed to the parent in __init__; the parent gives every match the
\* entity type CREDIT_CARD_TRACK_DATA
TrackPATTERNS ==
    <<[regex |-> Cat(<<WordBoundary, Rep(Cat(<<Cls(Digits), RepLazy(Cls({" ", "-"}), 0, -1)>>), 13,
          19), WordBoundary>>),
       score |-> 50],
      [regex |-> Cat(<<WordBoundary, Alt(<<Cat(<<LitI(<<"0">>), Cls({"1", "2", "3", "4", "5", "6",
          "7", "8", "9"})>>), Cat(<<LitI(<<"1">>), Cls({"0", "1", "2"})>>)>>), Opt(Cls({"/",
          "-"})), Alt(<<D(2), D(4)>>), WordBoundary>>),
       score |-> 80],
      [regex |-> Cat(<<WordBoundary, D(3), WordBoundary>>),
       score |-> 70],
      [regex |-> LitI(<<"%", "B">>),
       score |-> 90],
      [regex |-> LitI(<<";">>),
       score |-> 90]>>

CONTEXT_TERMS ==
    <<<<"c", "r", "e", "d", "i", "t", " ", "c", "a", "r", "d">>,
      <<"c", "a", "r", "d", " ", "n", "u", "m", "b", "e", "r">>,
      <<"e", "x", "p", "i", "r", "y", " ", "d", "a", "t", "e">>,
      <<"c", "v", "v">>,
      <<"c", "v", "c">>,
      <<"t", "r", "a", "c", "k", "-", "1">>,
      <<"t", "r", "a", "c", "k", "-", "2">>,
      <<"t", "r", "a", "c", "k", "-", "3">>,
      <<"t", "r", "a", "c", "k", " ", "d", "a", "t", "a">>,
      <<"m", "a", "g", "n", "e", "t", "i", "c", " ", "s", "t", "r", "i", "p", "e">>,
      <<"m", "a", "g", "s", "t", "r", "i", "p", "e">>,
      <<"c", "a", "r", "d", "h", "o", "l", "d", "e", "r">>,
      <<"p", "a", "n">>,
      <<"p", "r", "i", "m", "a", "r", "y", " ", "a", "c", "c", "o", "u", "n", "t", " ", "n", "u", "m", "b", "e", "r">>,
      <<"e", "x", "p", "i", "r", "a", "t", "i", "o", "n", " ", "d", "a", "t", "e">>,
      <<"e", "x", "p", "i", "r", "y">>,
      <<"d", "i", "s", "c", "r", "e", "t", "i", "o", "n", "a", "r", "y", " ", "d", "a", "t", "a">>,
      <<"s", "e", "r", "v", "i", "c", "e", " ", "c", "o", "d", "e">>,
      <<"n", "a", "m", "e", " ", "o", "n", " ", "c", "a", "r", "d">>,
      <<"c", "a", "r", "d", "h", "o", "l", "d", "e", "r", " ", "n", "a", "m", "e">>,
      <<"c", "c", "n">>,
      <<"c", "r", "e", "d", "i", "t", " ", "c", "a", "r", "d", " ", "n", "u", "m", "b", "e", "r">>,
      <<"e", "x", "p", "i", "r", "i", "n", "g">>,
      <<"e", "x", "p", "i", "r", "e", "s">>,
      <<"v", "a", "l", "i", "d", " ", "t", "h", "r", "u">>,
      <<"v", "a", "l", "i", "d", " ", "t", "h", "r", "o", "u", "g", "h">>,
      <<"v", "a", "l", "i", "d", " ", "f", "r", "o", "m">>,
      <<"c", "a", "r", "d", " ", "v", "e", "r", "i", "f", "i", "c", "a", "t", "i", "o", "n">>,
      <<"s", "e", "c", "u", "r", "i", "t", "y", " ", "c", "o", "d", "e">>,
      <<"t", "r", "a", "c", "k", " ", "d", "a", "t", "a">>,
      <<"m", "a", "g", "s", "t", "r", "i", "p", "e", " ", "d", "a", "t", "a">>,
      <<"c", "a", "r", "d", " ", "n", "u", "m", "b", "e", "r">>,
      <<"c", "a", "r", "d", " ", "n", "o">>,
      <<"c", "a", "r", "d", " ", "#">>,
      <<"c", "r", "e", "d", "i", "t", "c", "a", "r", "d">>,
      <<"d", "e", "b", "i", "t", " ", "c", "a", "r", "d">>,
      <<"p", "a", "y", "m", "e", "n", "t", " ", "c", "a", "r", "d">>,
      <<"b", "a", "n", "k", " ", "c", "a", "r", "d">>,
      <<"c", "a", "r", "d", " ", "d", "e", "t", "a", "i", "l", "s">>,
      <<"c", "a", "r", "d", " ", "i", "n", "f", "o", "r", "m", "a", "t", "i", "o", "n">>,
      <<"c", "a", "r", "d", " ", "e", "x", "p", "i", "r", "y">>,
      <<"c", "a", "r", "d", " ", "e", "x", "p">>,
      <<"c", "a", "r", "d", " ", "e", "x", "p", "i", "r", "a", "t", "i", "o", "n">>,
      <<"v", "a", "l", "i", "d", " ", "u", "n", "t", "i", "l">>>>

\* r"\b" + re.escape(term) + r"\b", re.IGNORECASE
TermPattern(term) == Cat(<<WordBoundary, LitI(term), WordBoundary>>)

\* CCTrackDataRecognizer._detect_context_terms(text)
detect_context_terms(tx) ==
    Concat([k \in 1..Len(CONTEXT_TERMS) |->
        LET ms == finditer(TermPattern(CONTEXT_TERMS[k]), tx)
        IN  [i \in 1..Len(ms) |-> [entity_type |-> "CREDIT_CARD_CONTEXT", start |-> ms[i].start,
                                   end |-> ms[i].end, score |-> 50]]])

\* CCTrackDataRecognizer._check_context(text, result), context_window = 50
check_context(tx, r) ==
    LET context_area == Window(tx, r.start, r.end, 50)
    IN  \E k \in 1..Len(CONTEXT_TERMS) : finditer(TermPattern(CONTEXT_TERMS[k]), context_area) # <<>>

\* CCTrackDataRecognizer._count_valid_ccns(text, results)
count_valid_ccns(tx, rs) ==
    Len(SelectSeq(rs, LAMBDA r : r.entity_type = "CREDIT_CARD"
                                 /\ validate_ccn(Slice(tx, r.start, r.end))))

\* CCTrackDataRecognizer.custom_validate_result(result, text)
custom_validate_result(r, tx) ==
    LET matched_text == Slice(tx, r.start, r.end)
    IN  IF r.entity_type = "CREDIT_CARD" THEN validate_ccn(matched_text)
        ELSE IF r.entity_type = "EXPIRY_DATE"
        THEN FullMatch(Cat(<<WordBoundary, Alt(<<Cat(<<Lit(<<"0">>), Cls({"1", "2", "3", "4", "5", "6", "7",
          "8", "9"})>>), Cat(<<Lit(<<"1">>), Cls({"0", "1", "2"})>>)>>), Opt(Cls({"/", "-"})),
          Alt(<<D(2), D(4)>>), WordBoundary>>), matched_text)
        ELSE IF r.entity_type = "SERVICE_CODE"
        THEN FullMatch(D(3), matched_text)
        ELSE TRUE

\* the score analyze leaves on a result that passed custom_validate_result
Track_score(tx, r, valid_ccns) ==
    LET with_context ==
            IF r.entity_type \in {"CREDIT_CARD", "EXPIRY_DATE", "SERVICE_CODE"}
               /\ check_context(tx, r)
            THEN Max(Milli(r.score), 700)
            ELSE Milli(r.score)
    IN  IF r.entity_type = "CREDIT_CARD" /\ valid_ccns > 1
        THEN Min(1000, with_context + 500 * (valid_ccns - 1))
        ELSE with_context

\* CCTrackDataRecognizer.analyze(text, entities, nlp_artifacts=None): all or nothing
Track_analyze(tx) ==
    LET rs == ParentAnalyze(TrackPATTERNS, tx, "CREDIT_CARD_TRACK_DATA", NoHook, NoHook)
              \o detect_context_terms(tx)
        valid_ccns == count_valid_ccns(tx, rs)
        valid_results == SelectSeq(rs, LAMBDA r : custom_validate_result(r, tx))
        track_data_count ==
            Len(SelectSeq(valid_results, LAMBDA r :
                    r.entity_type \in {"CREDIT_CARD", "EXPIRY_DATE", "SERVICE_CODE",
                                       "PERSON", "CREDIT_CARD_CONTEXT"}))
    IN  [k \in 1..Len(valid_results) |->
            [entity_type |-> valid_results[k].entity_type,
             start |-> valid_results[k].start, end |-> valid_results[k].end,
             validity |-> "valid", has_context |-> FALSE,
             score |-> Track_score(tx, valid_results[k], valid_ccns),
             kept |-> track_data_count >= 3]]

\* ------------------------------------------------------------ AustraliaBankAccountRecognizer
KNOWN_BSB_NUMBERS ==
    {<<"0", "1", "2", "-", "7", "8", "5">>,
      <<"0", "1", "2", "-", "9", "1", "1">>,
      <<"0", "1", "3", "-", "9", "6", "1">>,
      <<"0", "1", "6", "-", "9", "3", "6">>,
      <<"0", "1", "6", "-", "9", "8", "5">>,
      <<"0", "3", "2", "-", "1", "3", "9">>,
      <<"0", "3", "3", "-", "1", "4", "1">>,
      <<"0", "3", "5", "-", "8", "2", "5">>,
      <<"0", "6", "2", "-", "1", "3", "6">>,
      <<"0", "6", "2", "-", "7", "0", "7">>,
      <<"0", "6", "2", "-", "9", "0", "4">>,
      <<"0", "6", "4", "-", "1", "5", "9">>,
      <<"0", "8", "5", "-", "6", "4", "5">>,
      <<"0", "8", "7", "-", "6", "0", "0">>,
      <<"1", "0", "5", "-", "0", "6", "9">>,
      <<"1", "0", "5", "-", "0", "8", "3">>,
      <<"1", "0", "5", "-", "1", "1", "0">>,
      <<"1", "0", "5", "-", "1", "3", "3">>,
      <<"1", "0", "5", "-", "1", "4", "1">>,
      <<"1", "0", "5", "-", "1", "4", "6">>,
      <<"1", "0", "5", "-", "1", "5", "2">>,
      <<"2", "5", "7", "-", "0", "1", "9">>,
      <<"2", "5", "7", "-", "0", "2", "8">>,
      <<"2", "5", "7", "-", "0", "3", "7">>,
      <<"2", "5", "7", "-", "0", "4", "6">>,
      <<"2", "5", "7", "-", "0", "5", "5">>,
      <<"2", "5", "7", "-", "0", "6", "4">>,
      <<"2", "5", "7", "-", "0", "7", "3">>,
      <<"2", "5", "7", "-", "0", "8", "2">>,
      <<"2", "5", "7", "-", "0", "9", "1">>,
      <<"2", "5", "7", "-", "1", "0", "0">>,
      <<"2", "5", "7", "-", "1", "0", "9">>,
      <<"2", "5", "7", "-", "1", "1", "8">>,
      <<"2", "5", "7", "-", "1", "2", "7">>,
      <<"2", "5", "7", "-", "1", "3", "6">>,
      <<"2", "5", "7", "-", "1", "4", "5">>,
      <<"2", "5", "7", "-", "1", "5", "4">>,
      <<"2", "5", "7", "-", "1", "6", "3">>,
      <<"2", "5", "7", "-", "1", "7", "2">>,
      <<"2", "5", "7", "-", "1", "8", "1">>,
      <<"2", "5", "7", "-", "1", "9", "0">>,
      <<"2", "5", "7", "-", "1", "9", "9">>,
      <<"2", "5", "7", "-", "2", "0", "8">>,
      <<"2", "5", "7", "-", "2", "1", "7">>,
      <<"2", "5", "7", "-", "2", "3", "5">>,
      <<"2", "5", "7", "-", "2", "4", "4">>,
      <<"2", "5", "7", "-", "2", "5", "3">>,
      <<"2", "5", "7", "-", "2", "6", "2">>,
      <<"2", "5", "7", "-", "2", "7", "1">>,
      <<"2", "5", "7", "-", "2", "8", "0">>,
      <<"2", "5", "7", "-", "2", "8", "9">>,
      <<"2", "5", "7", "-", "2", "9", "8">>,
      <<"4", "8", "2", "-", "1", "5", "8">>,
      <<"4", "8", "2", "-", "1", "6", "0">>,
      <<"4", "8", "4", "-", "0", "9", "5">>,
      <<"4", "8", "4", "-", "1", "1", "3">>,
      <<"4", "8", "4", "-", "1", "2", "1">>,
      <<"4", "8", "4", "-", "1", "2", "2">>,
      <<"4", "8", "4", "-", "1", "2", "3">>,
      <<"4", "8", "4", "-", "1", "2", "9">>,
      <<"4", "8", "4", "-", "1", "3", "3">>,
      <<"4", "8", "4", "-", "1", "9", "1">>,
      <<"4", "8", "4", "-", "1", "9", "2">>,
      <<"4", "8", "4", "-", "1", "9", "3">>,
      <<"4", "8", "4", "-", "1", "9", "4">>,
      <<"4", "8", "4", "-", "4", "8", "2">>,
      <<"4", "8", "4", "-", "5", "5", "2">>,
      <<"4", "8", "4", "-", "7", "9", "9">>,
      <<"4", "8", "4", "-", "8", "8", "8">>,
      <<"4", "8", "4", "-", "9", "1", "1">>,
      <<"4", "8", "4", "-", "9", "1", "5">>,
      <<"7", "3", "2", "-", "1", "3", "9">>,
      <<"7", "3", "3", "-", "1", "4", "1">>,
      <<"7", "6", "2", "-", "1", "3", "6">>,
      <<"7", "6", "2", "-", "7", "0", "7">>,
      <<"7", "6", "2", "-", "9", "0", "4">>,
      <<"7", "6", "4", "-", "1", "5", "9">>,
      <<"8", "0", "2", "-", "8", "8", "7">>,
      <<"8", "0", "3", "-", "1", "1", "0">>,
      <<"8", "0", "3", "-", "1", "3", "6">>,
      <<"8", "0", "3", "-", "4", "2", "0">>,
      <<"8", "0", "3", "-", "4", "2", "1">>,
      <<"8", "0", "7", "-", "1", "2", "5">>,
      <<"8", "0", "7", "-", "1", "2", "6">>,
      <<"8", "0", "8", "-", "2", "6", "9">>,
      <<"8", "0", "8", "-", "2", "7", "0">>,
      <<"8", "0", "8", "-", "2", "7", "1">>,
      <<"8", "0", "8", "-", "2", "7", "2">>,
      <<"8", "0", "8", "-", "2", "7", "3">>,
      <<"8", "0", "8", "-", "2", "7", "4">>,
      <<"8", "0", "8", "-", "2", "7", "5">>,
      <<"8", "0", "8", "-", "2", "7", "6">>,
      <<"8", "0", "8", "-", "2", "7", "7">>}

AustraliaCONTEXT ==
    <<<<"b", "a", "n", "k", " ", "a", "c", "c", "o", "u", "n", "t">>,
      <<"a", "c", "c", "o", "u", "n", "t", " ", "n", "u", "m", "b", "e", "r">>,
      <<"a", "c", "c", "t", " ", "n", "u", "m">>,
      <<"a", "/", "c">>,
      <<"a", "c", "c", "o", "u", "n", "t">>,
      <<"b", "s", "b">>,
      <<"a", "u", "s", "t", "r", "a", "l", "i", "a", " ", "b", "a", "n", "k", " ", "a", "c", "c", "o", "u", "n", "t">>,
      <<"a", "c", "c", "o", "u", "n", "t", " ", "n", "u", "m", "b", "e", "r", " ", "w", "i", "t", "h", " ", "b", "s", "b">>,
      <<"a", "c", "c", " ", "n", "o", ".">>,
      <<"b", "a", "n", "k", " ", "d", "e", "t", "a", "i", "l", "s">>,
      <<"f", "u", "n", "d", " ", "t", "r", "a", "n", "s", "f", "e", "r">>,
      <<"b", "a", "n", "k", "i", "n", "g", " ", "i", "n", "f", "o", "r", "m", "a", "t", "i", "o", "n">>,
      <<"a", "c", "c", "o", "u", "n", "t", " ", "h", "o", "l", "d", "e", "r">>,
      <<"a", "/", "c", " ", "n", "u", "m", "b", "e", "r">>,
      <<"a", "c", "c", "o", "u", "n", "t", " ", "i", "n", "f", "o">>,
      <<"b", "a", "n", "k", " ", "i", "n", "f", "o">>,
      <<"b", "a", "n", "k", "i", "n", "g", " ", "i", "n", "f", "o">>,
      <<"b", "a", "n", "k", "i", "n", "g", " ", "a", "c", "c", "t">>,
      <<"a", "c", "c", "o", "u", "n", "t", " ", "i", "n", "f", "o", " ", "b", "s", "b">>,
      <<"a", "c", "c", "o", "u", "n", "t", " ", "n", "u", "m", "b", "e", "r", " ", "b", "s", "b">>>>

NEGATIVE_CONTEXT ==
    <<<<"d", "r", "i", "v", "e", "r">>,
      <<"l", "i", "c", "e", "n", "s", "e">>,
      <<"l", "i", "c", "e", "n", "c", "e">>,
      <<"p", "e", "r", "m", "i", "t">>,
      <<"i", "d", "e", "n", "t", "i", "f", "i", "c", "a", "t", "i", "o", "n">>>>

DEFAULT_PAIR_WINDOW == 120

\* AustraliaBankAccountRecognizer._normalize_bsb(raw_bsb); <<>> stands for None
normalize_bsb(raw_bsb) ==
    LET digits == OnlyDigits(raw_bsb)
    IN  IF Len(digits) = 6 THEN SubSeq(digits, 1, 3) \o <<"-">> \o SubSeq(digits, 4, 6)
        ELSE <<>>

\* the rules of analyze for one account and one BSB; 0 stands for "no result"
Australia_score(has_keyword, negative_present, valid_account, valid_bsb) ==
    LET rule == IF has_keyword /\ valid_account /\ valid_bsb THEN 1000
                ELSE IF has_keyword /\ (~valid_account \/ ~valid_bsb) THEN 600
                ELSE IF ~has_keyword /\ valid_account /\ valid_bsb THEN 800
                ELSE 0
    IN  IF negative_present /\ ~(has_keyword /\ valid_account /\ valid_bsb)
        THEN (rule * 15) \div 100
        ELSE rule

\* the double loop of analyze: every account with every BSB, a span reported once
RECURSIVE AustraliaPairs(_, _, _, _, _, _)
AustraliaPairs(tx, accounts, bsbs, a, b, seen_spans) ==
    IF a > Len(accounts) THEN <<>>
    ELSE IF b > Len(bsbs) THEN AustraliaPairs(tx, accounts, bsbs, a + 1, 1, seen_spans)
    ELSE LET acc == accounts[a]
             bsb == bsbs[b]
             acc_val == Slice(tx, acc.start, acc.end)
             valid_account == IsDigit(acc_val) /\ Len(acc_val) \in 6..10
             distance == Max(acc.end, bsb.end) - Min(acc.start, bsb.start)
             normalized_bsb == normalize_bsb(Slice(tx, bsb.start, bsb.end))
             valid_bsb == normalized_bsb # <<>> /\ normalized_bsb \in KNOWN_BSB_NUMBERS
             has_keyword == LoweredKeywordIn(AustraliaCONTEXT, tx)
             negative_present == LoweredKeywordIn(NEGATIVE_CONTEXT, tx)
             score == Australia_score(has_keyword, negative_present, valid_account, valid_bsb)
             span == <<Min(acc.start, bsb.start), Max(acc.end, bsb.end)>>
             skipped == \/ distance > DEFAULT_PAIR_WINDOW
                        \/ ~has_keyword /\ ~(valid_account /\ valid_bsb)
                        \/ span \in seen_spans
         IN  IF skipped THEN AustraliaPairs(tx, accounts, bsbs, a, b + 1, seen_spans)
             ELSE <<[start |-> span[1], end |-> span[2],
                     validity |-> IF valid_account /\ valid_bsb THEN "valid" ELSE "invalid",
                     has_context |-> has_keyword, score |-> score, kept |-> TRUE]>>
                  \o AustraliaPairs(tx, accounts, bsbs, a, b + 1, seen_spans \cup {span})

\* AustraliaBankAccountRecognizer.analyze(text, entities), the BSB file being absent
Australia_analyze(tx) ==
    LET account_iter == finditer(Cat(<<WordBoundary, Rep(Cls(Digits), 6, 10), WordBoundary>>), tx)
        bsb_iter == finditer(Cat(<<WordBoundary, D(3), Opt(Cls({"-", " "})), D(3), WordBoundary>>), tx)
    IN  IF tx = <<>> \/ account_iter = <<>> \/ bsb_iter = <<>> THEN <<>>
        ELSE AustraliaPairs(tx, account_iter, bsb_iter, 1, 1, {})

\* ------------------------------------------------------------ DateOfBirthRecognizer
\* the scores of the patterns of _build_patterns
DateOfBirthScores == {50, 60, 70, 75, 80, 85, 90}

\* MONTHS, every language's full and abbreviated names in turn
flattened_months ==
    <<<<"j", "a", "n", "u", "a", "r", "y">>,
      <<"f", "e", "b", "r", "u", "a", "r", "y">>,
      <<"m", "a", "r", "c", "h">>,
      <<"a", "p", "r", "i", "l">>,
      <<"m", "a", "y">>,
      <<"j", "u", "n", "e">>,
      <<"j", "u", "l", "y">>,
      <<"a", "u", "g", "u", "s", "t">>,
      <<"s", "e", "p", "t", "e", "m", "b", "e", "r">>,
      <<"o", "c", "t", "o", "b", "e", "r">>,
      <<"n", "o", "v", "e", "m", "b", "e", "r">>,
      <<"d", "e", "c", "e", "m", "b", "e", "r">>,
      <<"j", "a", "n">>,
      <<"f", "e", "b">>,
      <<"m", "a", "r">>,
      <<"a", "p", "r">>,
      <<"m", "a", "y">>,
      <<"j", "u", "n">>,
      <<"j", "u", "l">>,
      <<"a", "u", "g">>,
      <<"s", "e", "p">>,
      <<"o", "c", "t">>,
      <<"n", "o", "v">>,
      <<"d", "e", "c">>,
      <<"j", "a", "n", "v", "i", "e", "r">>,
      <<"f", "e-acute", "v", "r", "i", "e", "r">>,
      <<"m", "a", "r", "s">>,
      <<"a", "v", "r", "i", "l">>,
      <<"m", "a", "i">>,
      <<"j", "u", "i", "n">>,
      <<"j", "u", "i", "l", "l", "e", "t">>,
      <<"a", "o", "u-circumflex", "t">>,
      <<"s", "e", "p", "t", "e", "m", "b", "r", "e">>,
      <<"o", "c", "t", "o", "b", "r", "e">>,
      <<"n", "o", "v", "e", "m", "b", "r", "e">>,
      <<"d", "e-acute", "c", "e", "m", "b", "r", "e">>,
      <<"j", "a", "n", "v">>,
      <<"f", "e-acute", "v", "r">>,
      <<"m", "a", "r", "s">>,
      <<"a", "v", "r">>,
      <<"m", "a", "i">>,
      <<"j", "u", "i", "n">>,
      <<"j", "u", "i", "l">>,
      <<"a", "o", "u-circumflex", "t">>,
      <<"s", "e", "p", "t">>,
      <<"o", "c", "t">>,
      <<"n", "o", "v">>,
      <<"d", "e-acute", "c">>,
      <<"e", "n", "e", "r", "o">>,
      <<"f", "e", "b", "r", "e", "r", "o">>,
      <<"m", "a", "r", "z", "o">>,
      <<"a", "b", "r", "i", "l">>,
      <<"m", "a", "y", "o">>,
      <<"j", "u", "n", "i", "o">>,
      <<"j", "u", "l", "i", "o">>,
      <<"a", "g", "o", "s", "t", "o">>,
      <<"s", "e", "p", "t", "i", "e", "m", "b", "r", "e">>,
      <<"o", "c", "t", "u", "b", "r", "e">>,
      <<"n", "o", "v", "i", "e", "m", "b", "r", "e">>,
      <<"d", "i", "c", "i", "e", "m", "b", "r", "e">>,
      <<"e", "n", "e">>,
      <<"f", "e", "b">>,
      <<"m", "a", "r">>,
      <<"a", "b", "r">>,
      <<"m", "a", "y">>,
      <<"j", "u", "n">>,
      <<"j", "u", "l">>,
      <<"a", "g", "o">>,
      <<"s", "e", "p">>,
      <<"o", "c", "t">>,
      <<"n", "o", "v">>,
      <<"d", "i", "c">>,
      <<"j", "a", "n", "u", "a", "r">>,
      <<"f", "e", "b", "r", "u", "a", "r">>,
      <<"m", "a-umlaut", "r", "z">>,
      <<"a", "p", "r", "i", "l">>,
      <<"m", "a", "i">>,
      <<"j", "u", "n", "i">>,
      <<"j", "u", "l", "i">>,
      <<"a", "u", "g", "u", "s", "t">>,
      <<"s", "e", "p", "t", "e", "m", "b", "e", "r">>,
      <<"o", "k", "t", "o", "b", "e", "r">>,
      <<"n", "o", "v", "e", "m", "b", "e", "r">>,
      <<"d", "e", "z", "e", "m", "b", "e", "r">>,
      <<"j", "a", "n">>,
      <<"f", "e", "b">>,
      <<"m", "a-umlaut", "r">>,
      <<"a", "p", "r">>,
      <<"m", "a", "i">>,
      <<"j", "u", "n">>,
      <<"j", "u", "l">>,
      <<"a", "u", "g">>,
      <<"s", "e", "p">>,
      <<"o", "k", "t">>,
      <<"n", "o", "v">>,
      <<"d", "e", "z">>,
      <<"g", "e", "n", "n", "a", "i", "o">>,
      <<"f", "e", "b", "b", "r", "a", "i", "o">>,
      <<"m", "a", "r", "z", "o">>,
      <<"a", "p", "r", "i", "l", "e">>,
      <<"m", "a", "g", "g", "i", "o">>,
      <<"g", "i", "u", "g", "n", "o">>,
      <<"l", "u", "g", "l", "i", "o">>,
      <<"a", "g", "o", "s", "t", "o">>,
      <<"s", "e", "t", "t", "e", "m", "b", "r", "e">>,
      <<"o", "t", "t", "o", "b", "r", "e">>,
      <<"n", "o", "v", "e", "m", "b", "r", "e">>,
      <<"d", "i", "c", "e", "m", "b", "r", "e">>,
      <<"g", "e", "n">>,
      <<"f", "e", "b">>,
      <<"m", "a", "r">>,
      <<"a", "p", "r">>,
      <<"m", "a", "g">>,
      <<"g", "i", "u">>,
      <<"l", "u", "g">>,
      <<"a", "g", "o">>,
      <<"s", "e", "t">>,
      <<"o", "t", "t">>,
      <<"n", "o", "v">>,
      <<"d", "i", "c">>>>

\* re.search(pattern, s)
Search(re, cs) == finditer(re, cs) # <<>>

\* DateOfBirthRecognizer._adjust_confidence_based_on_pattern(text, result)
adjust_confidence_based_on_pattern(tx, r) ==
    LET matched_text == Lower(Slice(tx, r.start, r.end))
        four_digit_year == Search(Cat(<<Alt(<<Lit(<<"1", "9">>), Lit(<<"2", "0">>)>>), D(2)>>), matched_text)
        two_digit_year ==
            Search(Cat(<<Rep(Cls(Digits), 1, 2), Cls({"-", ".", "/"}), Rep(Cls(Digits), 1, 2), Cls({"-",
          ".", "/"}), D(2), Alt(<<Cls(SpaceChars), AtEnd>>)>>), matched_text)
        c0 == Milli(r.score)
        c1 == IF four_digit_year THEN Min(c0 + 50, 950) ELSE c0
        c2 == IF two_digit_year /\ ~four_digit_year THEN Max(c1 - 100, 300) ELSE c1
        c3 == IF LoweredKeywordIn(flattened_months, matched_text) THEN Min(c2 + 100, 950) ELSE c2
        c4 == IF Search(Cat(<<D(4), Lit(<<"-">>), D(2), Lit(<<"-">>), D(2)>>), matched_text) THEN Min(c3 + 100, 950) ELSE c3
    IN  Min(Max(c4, 0), 1000)

\* ------------------------------------------------------------ the calls
RangeRecognizers ==
    {"CanadaSINRecognizer", "CCTrackDataRecognizer", "AustraliaBankAccountRecognizer",
     "DateOfBirthRecognizer"}

MaxRangeTokens == 2

\* what a text is put together from
RangeTokens(r) ==
    CASE r = "CanadaSINRecognizer" ->
           {<<"0", "4", "6", " ", "4", "5", "4", " ", "2", "8", "6">>,
            <<"0", "4", "6", " ", "4", "5", "4", " ", "2", "8", "7">>,
            <<"0", "4", "6", "4", "5", "4", "2", "8", "6">>,
            <<"S", "I", "N">>,
            <<"c", "a", "n", "a", "d", "i", "a", "n">>,
            <<"x">>}
      [] r = "CCTrackDataRecognizer" ->
           {<<"4", "5", "3", "9", "5", "7", "8", "7", "6", "3", "6", "2", "1", "4", "8", "6">>,
            <<"1", "2", "/", "2", "5">>,
            <<"1", "0", "1">>,
            <<"c", "r", "e", "d", "i", "t", " ", "c", "a", "r", "d", " ", "n", "u", "m", "b", "e", "r">>,
            <<"C", "V", "V">>,
            <<";">>}
      [] r = "AustraliaBankAccountRecognizer" ->
           {<<"0", "6", "2", "-", "1", "3", "6", " ", "1", "2", "3", "4", "5", "6", "7", "8">>,
            <<"1", "2", "3", "-", "4", "5", "6", " ", "1", "2", "3", "4", "5", "6", "7", "8">>,
            <<"0", "6", "2", "1", "3", "6">>,
            <<"a", "c", "c", "o", "u", "n", "t">>,
            <<"d", "r", "i", "v", "e", "r">>,
            <<"x">>}
      [] r = "DateOfBirthRecognizer" ->
           {<<"0", "1", "/", "0", "2", "/", "1", "9", "9", "0">>,
            <<"0", "1", "/", "0", "2", "/", "9", "0">>,
            <<"1", " ", "J", "u", "l", "y", " ", "9", "0">>,
            <<"1", "9", "9", "0", "-", "0", "1", "-", "0", "2">>,
            <<"b", "o", "r", "n">>,
            <<"x">>}

RangeTexts(r) == {JoinWith(<<" ">>, l) : l \in ListsUpTo(RangeTokens(r), MaxRangeTokens)}

\* for DateOfBirthRecognizer the call is _adjust_confidence_based_on_pattern(text,
\* result): candidate holds the result, a match of one of the patterns
InitRange ==
    /\ recognizer \in RangeRecognizers
    /\ pc = "start"
    /\ text \in RangeTexts(recognizer)
    /\ vocab = <<>>
    /\ entities = {}
    /\ collected = <<>>
    /\ returned = <<>>
    /\ IF recognizer = "DateOfBirthRecognizer"
       THEN candidate \in {[start |-> 0, end |-> Len(text), score |-> s] :
                              s \in DateOfBirthScores}
       ELSE candidate = <<>>
    /\ verdicts = <<>>
    /\ idx = 0
    /\ remainder = 0
    /\ FilterIdle

AnalyzeCanada ==
    /\ pc = "start"
    /\ recognizer = "CanadaSINRecognizer"
    /\ FinishJudged(Canada_analyze(text), "CA_SIN")

\* the results keep the entity types they were made with
AnalyzeTrack ==
    /\ pc = "start"
    /\ recognizer = "CCTrackDataRecognizer"
    /\ collected' = Track_analyze(text)
    /\ returned' = LET ks == SelectSeq(collected', LAMBDA j : j.kept)
                   IN  [k \in 1..Len(ks) |-> [entity_type |-> ks[k].entity_type,
                                              start |-> ks[k].start, end |-> ks[k].end,
                                              score |-> ks[k].score]]
    /\ pc' = "returned"
    /\ UNCHANGED <<recognizer, text, vocab, entities, filterVars, checkVars>>

AnalyzeAustralia ==
    /\ pc = "start"
    /\ recognizer = "AustraliaBankAccountRecognizer"
    /\ FinishJudged(Australia_analyze(text), "AUSTRALIA_BANK_ACCOUNT")

AdjustDateOfBirth ==
    /\ pc = "start"
    /\ recognizer = "DateOfBirthRecognizer"
    /\ FinishJudged(<<Verdict(candidate, "valid", FALSE,
                              adjust_confidence_based_on_pattern(text, candidate), TRUE)>>,
                    "DATE_OF_BIRTH")

NextRange == AnalyzeCanada \/ AnalyzeTrack \/ AnalyzeAustralia \/ AdjustDateOfBirth

SpecRange == InitRange /\ [][NextRange]_vars

\* ------------------------------------------------------------ claim C14
\* C14: every result returned by analyze() has a score in [0, 1] (0 to 1000
\* thousandths), whatever the base score, the context boost, the penalty and the
\* multi-match boost (CanadaSINRecognizer, CCTrackDataRecognizer,
\* DateOfBirthRecognizer, AustraliaBankAccountRecognizer).
C14_ScoresInUnitInterval ==
    pc = "returned" => \A k \in 1..Len(returned) : returned[k].score \in 0..1000

\* a call in which the clamp acted: a valid SIN with a keyword, 1.0 + 0.2 held at 1.0
C14_Witness ==
    /\ pc = "returned"
    /\ recognizer = "CanadaSINRecognizer"
    /\ returned # <<>>
    /\ collected[1].has_context
    /\ returned[1].score = 1000

\* ------------------------------------------------------------ context windows
\* GermanIBANRecognizer.CONTEXT
GermanIBAN_CONTEXT ==
  <<<<"i", "b", "a", "n">>,
    <<"i", "n", "t", "e", "r", "n", "a", "t", "i", "o", "n", "a", "l", " ", "b", "a", "n", "k", " ", "a", "c", "c", "o", "u", "n", "t", " ", "n", "u", "m", "b", "e", "r">>,
    <<"b", "a", "n", "k", " ", "a", "c", "c", "o", "u", "n", "t">>,
    <<"b", "a", "n", "k", " ", "a", "c", "c", "o", "u", "n", "t", " ", "n", "u", "m", "b", "e", "r">>,
    <<"b", "a", "n", "k", "k", "o", "n", "t", "o">>,
    <<"k", "o", "n", "t", "o", "n", "u", "m", "m", "e", "r">>,
    <<"b", "a", "n", "k", "v", "e", "r", "b", "i", "n", "d", "u", "n", "g">>,
    <<"g", "i", "r", "o", "k", "o", "n", "t", "o">>>>

\* GermanIBANRecognizer._has_context(text, start, end): window_size = 100
GermanIBAN_has_context(tx, start, end) ==
    LoweredKeywordIn(GermanIBAN_CONTEXT, Window(tx, start, end, 100))

WindowRecognizers == {"UsSsnRecognizer", "GermanIBANRecognizer"}

\* window_size of the recognizer's _has_context
window_size(r) == IF r = "UsSsnRecognizer" THEN 50 ELSE 100

WindowCONTEXT(r) == IF r = "UsSsnRecognizer" THEN UsSsnCONTEXT ELSE GermanIBAN_CONTEXT

\* a candidate each recognizer's pattern matches
WindowCandidate(r) ==
    IF r = "UsSsnRecognizer"
    THEN <<"2", "1", "2", "-", "4", "5", "-", "6", "7", "8", "9">>
    ELSE <<"D", "E", "8", "9", "3", "7", "0", "4", "0", "0", "4", "4", "0", "5", "3", "2", "0", "1", "3", "0", "0", "0">>

\* the texts explored: filler, the candidate, filler, one configured keyword as
\* written or in capitals, filler; the keyword starts within MaxSlack characters
\* of the two ends of the window's edge
MaxLead == 1
MaxSlack == 2

Filler(n) == [i \in 1..n |-> "."]

WindowGaps(r, keyword) ==
    {g \in (window_size(r) - Len(keyword) - MaxSlack)..(window_size(r) + 1 + MaxSlack) : g >= 1}

WindowTexts(r) ==
    {Filler(lead) \o WindowCandidate(r) \o Filler(gap) \o keyword \o Filler(trail) :
        <<lead, trail, keyword, gap>> \in
            {q \in (0..MaxLead) \X (0..1)
                   \X ({WindowCONTEXT(r)[k] : k \in 1..Len(WindowCONTEXT(r))}
                       \cup {Upper(WindowCONTEXT(r)[k]) : k \in 1..Len(WindowCONTEXT(r))})
                   \X (1..(window_size(r) + 1 + MaxSlack)) :
                q[4] \in WindowGaps(r, q[3])}}

\* the span handed to _has_context: where the candidate lies in the text
CandidateSpan(r, tx) ==
    CHOOSE span \in {[start |-> s, end |-> s + Len(WindowCandidate(r))] : s \in 0..MaxLead} :
        Slice(tx, span.start, span.end) = WindowCandidate(r)

InitWindow ==
    /\ recognizer \in WindowRecognizers
    /\ pc = "start"
    /\ text \in WindowTexts(recognizer)
    /\ candidate = CandidateSpan(recognizer, text)
    /\ vocab = <<>>
    /\ entities = {}
    /\ collected = <<>>
    /\ returned = <<>>
    /\ verdicts = <<>>
    /\ idx = 0
    /\ remainder = 0
    /\ FilterIdle

\* one call of _has_context(text, start, end); verdicts holds what it returned
HasContextUsSsn ==
    /\ pc = "start"
    /\ recognizer = "UsSsnRecognizer"
    /\ verdicts' = <<UsSsn_has_context(text, candidate.start, candidate.end)>>
    /\ pc' = "returned"
    /\ UNCHANGED <<recognizer, text, vocab, entities, collected, returned, candidate,
                   idx, remainder>>
    /\ UNCHANGED filterVars

HasContextGermanIBAN ==
    /\ pc = "start"
    /\ recognizer = "GermanIBANRecognizer"
    /\ verdicts' = <<GermanIBAN_has_context(text, candidate.start, candidate.end)>>
    /\ pc' = "returned"
    /\ UNCHANGED <<recognizer, text, vocab, entities, collected, returned, candidate,
                   idx, remainder>>
    /\ UNCHANGED filterVars

NextWindow == HasContextUsSsn \/ HasContextGermanIBAN

SpecWindow == InitWindow /\ [][NextWindow]_vars

\* ------------------------------------------------------------ claim C15
\* every place where a configured keyword occurs in the text, compared character
\* by character ignoring case: the keyword's index and the offset of its first
\* character
KeywordOccurrences(keywords, tx) ==
    {o \in (1..Len(keywords)) \X (0..Len(tx)) :
        /\ o[2] + Len(keywords[o[1]]) <= Len(tx)
        /\ \A i \in 1..Len(keywords[o[1]]) :
               LowerChar(tx[o[2] + i]) = LowerChar(keywords[o[1]][i])}

OnlyOccurrence ==
    CHOOSE o \in KeywordOccurrences(WindowCONTEXT(recognizer), text) : TRUE

HasOnlyOccurrence ==
    /\ pc = "returned"
    /\ Cardinality(KeywordOccurrences(WindowCONTEXT(recognizer), text)) = 1

\* C15: with window size W, when the only keyword occurrence in the text is at
\* offset span.end + W + 1 has_context is false, and at offset span.end + W
\* has_context is true.
C15_WindowBoundary ==
    HasOnlyOccurrence =>
        /\ OnlyOccurrence[2] = candidate.end + window_size(recognizer) + 1 => ~verdicts[1]
        /\ OnlyOccurrence[2] = candidate.end + window_size(recognizer) => verdicts[1]

\* C15, as the code has it: the window is text[start - W : end + W], and a keyword
\* counts when the whole of it lies inside. When the only keyword occurrence has
\* its last character at offset span.end + W has_context is false, and moving the
\* occurrence one character towards the span, its last character at offset
\* span.end + W - 1, makes has_context true.
KeywordLast == OnlyOccurrence[2] + Len(WindowCONTEXT(recognizer)[OnlyOccurrence[1]]) - 1

C15_WindowBoundaryWholeKeyword ==
    HasOnlyOccurrence =>
        /\ KeywordLast = candidate.end + window_size(recognizer) => ~verdicts[1]
        /\ KeywordLast = candidate.end + window_size(recognizer) - 1 => verdicts[1]

\* the keyword "ssn" just inside the window of UsSsnRecognizer: found
C15_Witness ==
    /\ HasOnlyOccurrence
    /\ recognizer = "UsSsnRecognizer"
    /\ KeywordLast = candidate.end + window_size(recognizer) - 1
    /\ verdicts[1]

\* ------------------------------------------------------------ validators
\* what one call of a validator comes to: the verdict it returned, or the
\* exception that left it
Answered(v) == [raised |-> FALSE, value |-> v]
Thrown == [raised |-> TRUE, value |-> FALSE]

\* ------------------------------------------------------------ GermanDriversLicenseRecognizer
GermanDL_PATTERNS ==
    <<[regex |-> Cat(<<WordBoundary,
          Cls(UpperLetters \cup LowerLetters \cup {CapitalIDot} \cup LowerLetters \cup UpperLetters \cup {CapitalIDot} \cup Digits),
          Opt(Cls({"-", " "})), D(2), Opt(Cls({"-", " "})),
          Rep(Cls(UpperLetters \cup LowerLetters \cup {CapitalIDot} \cup LowerLetters \cup UpperLetters \cup {CapitalIDot} \cup Digits),
          6, 6), Opt(Cls({"-", " "})), Cls(Digits), Opt(Cls({"-", " "})),
          Cls(UpperLetters \cup LowerLetters \cup {CapitalIDot} \cup LowerLetters \cup UpperLetters \cup {CapitalIDot} \cup Digits),
          WordBoundary>>),
       score |-> 50]>>

\* re.sub(r'[^A-Za-z0-9]', '', license_number).upper()
GermanDL_normalize(license_number) ==
    Upper(SelectSeq(license_number,
                    LAMBDA c : c \in UpperLetters \cup LowerLetters \cup Digits))

\* char_map = {chr(i): i - 55 for i in range(65, 91)}
char_map(c) == 9 + (CHOOSE i \in 1..26 : UpperSeq[i] = c)

\* a letter gives the two digits of divmod(char_map[char], 10), a digit itself
RECURSIVE GermanDL_digits(_)
GermanDL_digits(cs) ==
    IF cs = <<>> THEN <<>>
    ELSE (IF Head(cs) \in UpperLetters
          THEN <<char_map(Head(cs)) \div 10, char_map(Head(cs)) % 10>>
          ELSE <<DigitValue(Head(cs))>>) \o GermanDL_digits(Tail(cs))

GermanDL_weights == <<9, 8, 7, 6, 5, 4, 3, 2, 1>>

\* sum(digit * weight for digit, weight in zip(digits[:9], weights))
RECURSIVE GermanDL_weighted_sum(_, _)
GermanDL_weighted_sum(digits, i) ==
    IF i > Min(9, Len(digits)) THEN 0
    ELSE digits[i] * GermanDL_weights[i] + GermanDL_weighted_sum(digits, i + 1)

\* GermanDriversLicenseRecognizer._checksum_is_valid(normalized), for what
\* _normalize returns. In char_map.get(check_digit, int(check_digit)) the default
\* is evaluated before the lookup: int() of a letter raises ValueError
checksum_is_valid(normalized) ==
    IF Len(normalized) # 11 THEN Answered(FALSE)
    ELSE LET weighted_sum ==
                 GermanDL_weighted_sum(GermanDL_digits(SubSeq(normalized, 1, 10)), 1)
             check_digit == normalized[11]
         IN  IF check_digit = "X" THEN Answered(weighted_sum % 11 = 10)
             ELSE IF check_digit \notin Digits THEN Thrown
             ELSE Answered(weighted_sum % 11 = DigitValue(check_digit))

\* ------------------------------------------------------------ AbaRoutingRecognizer
AbaPATTERNS ==
    <<[regex |-> Cat(<<WordBoundary, Alt(<<LitI(<<"0", "0">>), LitI(<<"0", "1">>), LitI(<<"0", "2">>),
          LitI(<<"0", "3">>), LitI(<<"0", "4">>), LitI(<<"0", "5">>), LitI(<<"0", "6">>),
          LitI(<<"0", "7">>), LitI(<<"0", "8">>), LitI(<<"1", "0">>), LitI(<<"1", "1">>),
          LitI(<<"1", "2">>)>>), D(3), LitI(<<"-">>), D(4), LitI(<<"-">>), Cls(Digits),
          WordBoundary>>),
       score |-> 50],
      [regex |-> Cat(<<WordBoundary, Alt(<<LitI(<<"0", "0">>), LitI(<<"0", "1">>), LitI(<<"0", "2">>),
          LitI(<<"0", "3">>), LitI(<<"0", "4">>), LitI(<<"0", "5">>), LitI(<<"0", "6">>),
          LitI(<<"0", "7">>), LitI(<<"0", "8">>), LitI(<<"1", "0">>), LitI(<<"1", "1">>),
          LitI(<<"1", "2">>)>>), D(7), WordBoundary>>),
       score |-> 95],
      [regex |-> Cat(<<WordBoundary, Alt(<<LitI(<<"0", "0">>), LitI(<<"0", "1">>), LitI(<<"0", "2">>),
          LitI(<<"0", "3">>), LitI(<<"0", "4">>), LitI(<<"0", "5">>), LitI(<<"0", "6">>),
          LitI(<<"0", "7">>), LitI(<<"0", "8">>), LitI(<<"1", "0">>), LitI(<<"1", "1">>),
          LitI(<<"1", "2">>)>>), D(2), LitI(<<"-">>), D(4), LitI(<<"-">>), Cls(Digits),
          WordBoundary>>),
       score |-> 95]>>

\* replacement_pairs = [("-", "")]
Aba_sanitize_value(tx) == SelectSeq(tx, LAMBDA c : c # "-")

Aba_weights == <<3, 7, 1, 3, 7, 1, 3, 7, 1>>

RECURSIVE Aba_sum(_, _)
Aba_sum(cs, i) ==
    IF i > 9 THEN 0 ELSE DigitValue(cs[i]) * Aba_weights[i] + Aba_sum(cs, i + 1)

\* AbaRoutingRecognizer.__checksum(sanitized_value): sanitized_value[idx] raises
\* IndexError past the end, int() raises ValueError on a character that is no digit
Aba_checksum(sanitized_value) ==
    IF Len(sanitized_value) < 9 \/ ~IsDigit(SubSeq(sanitized_value, 1, 9)) THEN Thrown
    ELSE Answered(Aba_sum(sanitized_value, 1) % 10 = 0)

\* AbaRoutingRecognizer.validate_result(pattern_text)
Aba_validate_result(pattern_text) == Aba_checksum(Aba_sanitize_value(pattern_text))

\* ------------------------------------------------------------ AuTfnRecognizer
AuTfnPATTERNS ==
    <<[regex |-> Cat(<<WordBoundary, D(9), WordBoundary>>),
       score |-> 80],
      [regex |-> Cat(<<WordBoundary, D(3), LitI(<<" ">>), D(3), LitI(<<" ">>), D(3), WordBoundary>>),
       score |-> 90],
      [regex |-> Cat(<<WordBoundary, D(3), LitI(<<"-">>), D(3), LitI(<<"-">>), D(3), WordBoundary>>),
       score |-> 90]>>

\* replacement_pairs = [("-", ""), (" ", "")]
AuTfn_sanitize_value(tx) == SelectSeq(tx, LAMBDA c : c \notin {"-", " "})

AuTfn_weight == <<1, 4, 3, 7, 5, 8, 6, 9, 10>>

RECURSIVE AuTfn_sum_product(_, _)
AuTfn_sum_product(tfn_list, i) ==
    IF i > 9 THEN 0
    ELSE DigitValue(tfn_list[i]) * AuTfn_weight[i] + AuTfn_sum_product(tfn_list, i + 1)

\* AuTfnRecognizer.validate_result(pattern_text): int(digit) raises ValueError on
\* a character that is neither a digit nor a space, tfn_list[i] raises IndexError
\* on fewer than nine digits
AuTfn_validate_result(pattern_text) ==
    LET tfn_list == SelectSeq(AuTfn_sanitize_value(pattern_text),
                              LAMBDA c : c \notin SpaceChars)
    IN  IF tfn_list # <<>> /\ ~IsDigit(tfn_list) THEN Thrown
        ELSE IF Len(tfn_list) < 9 THEN Thrown
        ELSE Answered(AuTfn_sum_product(tfn_list, 1) % 11 = 0)

\* ------------------------------------------------------------ the calls explored
ValidatorRecognizers ==
    {"GermanDriversLicenseRecognizer", "AbaRoutingRecognizer", "AuTfnRecognizer"}

ValidatorPATTERNS(r) ==
    IF r = "GermanDriversLicenseRecognizer" THEN GermanDL_PATTERNS
    ELSE IF r = "AbaRoutingRecognizer" THEN AbaPATTERNS
    ELSE AuTfnPATTERNS

\* strings to try: for the licence number every combination of a first
\* character, a separator, the two digits, six characters, a digit and a last
\* character
ValidatorTokens(r) ==
    IF r = "GermanDriversLicenseRecognizer"
    THEN {first \o sep \o <<"0", "7">> \o sep \o six \o sep \o digit \o sep \o last :
            <<first, sep, six, digit, last>> \in
                {<<"B">>,
     <<"j">>,
     <<"4">>}
                \X {<<>>, <<"-">>, <<" ">>}
                \X {<<"2", "R", "R", "E", "2", "I">>,
     <<"a", "b", "c", "1", "2", "3">>}
                \X {<<"5">>, <<"8">>}
                \X {<<"0">>,
     <<"4">>,
     <<"7">>,
     <<"9">>,
     <<"X">>,
     <<"x">>,
     <<"A">>,
     <<"b">>,
     <<"Z">>}}
    ELSE IF r = "AbaRoutingRecognizer"
    THEN {<<"0", "2", "1", "0", "0", "0", "0", "2", "1">>,
     <<"0", "2", "1", "0", "0", "0", "0", "2", "2">>,
     <<"0", "2", "1", "0", "-", "0", "0", "0", "2", "-", "1">>,
     <<"0", "2", "1", "0", "-", "0", "0", "0", "2", "-", "2">>,
     <<"0", "2", "1", "0", "0", "-", "0", "0", "2", "1", "-", "1">>,
     <<"1", "2", "3", "4", "5", "-", "6", "7", "8", "9", "-", "0">>,
     <<"1", "2", "3", "4", "-", "5", "6", "7", "8", "-", "9">>,
     <<"0", "9", "1", "0", "0", "0", "0", "1", "9">>,
     <<"0", "9", "1", "0", "-", "0", "0", "0", "1", "-", "9">>,
     <<"0", "2", "1", "0", "0", "0", "0", "2", "1", "1">>}
    ELSE {<<"1", "2", "3", "4", "5", "6", "7", "8", "2">>,
     <<"1", "2", "3", "4", "5", "6", "7", "8", "3">>,
     <<"1", "2", "3", " ", "4", "5", "6", " ", "7", "8", "2">>,
     <<"1", "2", "3", "-", "4", "5", "6", "-", "7", "8", "2">>,
     <<"1", "2", "3", " ", "4", "5", "6", "-", "7", "8", "2">>,
     <<"1", "2", "3", "4", "5", "6", "7", "8">>,
     <<"1", "2", "3", " ", "4", "5", "6", " ", "7", "8", "3">>,
     <<"0", "0", "0", "-", "0", "0", "0", "-", "0", "0", "0">>}

\* the candidates a validator is handed: the strings one of the recognizer's
\* own patterns matches
ValidatorCandidates(r) ==
    {c \in ValidatorTokens(r) :
        \E p \in 1..Len(ValidatorPATTERNS(r)) : FullMatch(ValidatorPATTERNS(r)[p].regex, c)}

InitValidators ==
    /\ recognizer \in ValidatorRecognizers
    /\ pc = "start"
    /\ candidate \in ValidatorCandidates(recognizer)
    /\ verdicts = <<>>
    /\ idx = 0
    /\ remainder = 0
    /\ FilterIdle
    /\ AnalyzeIdle

\* the call ends: the verdict is handed back, or the exception leaves the validator
FinishValidator(out) ==
    /\ verdicts' = IF out.raised THEN <<>> ELSE <<out.value>>
    /\ pc' = IF out.raised THEN "raised" ELSE "returned"
    /\ UNCHANGED <<recognizer, candidate, idx, remainder, filterVars, analyzeVars>>

\* analyze: _checksum_is_valid(self._normalize(raw_text))
CallChecksumIsValid ==
    /\ pc = "start"
    /\ recognizer = "GermanDriversLicenseRecognizer"
    /\ FinishValidator(checksum_is_valid(GermanDL_normalize(candidate)))

CallAbaValidateResult ==
    /\ pc = "start"
    /\ recognizer = "AbaRoutingRecognizer"
    /\ FinishValidator(Aba_validate_result(candidate))

CallAuTfnValidateResult ==
    /\ pc = "start"
    /\ recognizer = "AuTfnRecognizer"
    /\ FinishValidator(AuTfn_validate_result(candidate))

NextValidators == CallChecksumIsValid \/ CallAbaValidateResult \/ CallAuTfnValidateResult

SpecValidators == InitValidators /\ [][NextValidators]_vars

\* ------------------------------------------------------------ claim C18
\* C18: validators are total and never raise: for every candidate string that the
\* recognizer's own pattern can match, the checksum validator returns a verdict
\* instead of raising (GermanDriversLicenseRecognizer._checksum_is_valid,
\* AbaRoutingRecognizer.validate_result, AuTfnRecognizer.validate_result).
C18_ValidatorsNeverRaise == pc # "raised"

\* ------------------------------------------------------------ missing vocabularies
\* the two recognizers are constructed over the vocabulary the data files hold
\* (vocab = <<>>: the files are missing or unreadable) and analyze is called;
\* pc is "new" before the constructor, "failed" when the constructor raised
DegradedRecognizers == {"ICD10Recognizer", "LowThresholdHIPAARecognizer"}

InitDegraded ==
    /\ recognizer \in DegradedRecognizers
    /\ pc = "new"
    /\ text \in DictTexts
    /\ vocab \in Vocabularies
    /\ entities \in {{}, {SupportedEntity(recognizer)}}
    /\ collected = <<>>
    /\ returned = <<>>
    /\ FilterIdle
    /\ CheckIdle

\* ICD10Recognizer.__init__: load_preprocessed_patterns() gives [], Automaton()
\* when the file cannot be read, and super().__init__(patterns=self.patterns[:1])
\* raises on the empty list
ConstructICD10 ==
    /\ pc = "new"
    /\ recognizer = "ICD10Recognizer"
    /\ pc' = IF Constructs(recognizer, vocab) THEN "start" ELSE "failed"
    /\ UNCHANGED <<recognizer, text, vocab, entities, collected, returned,
                   filterVars, checkVars>>

\* LowThresholdHIPAARecognizer.__init__: safe_load gives [] for a file that
\* cannot be read, and make_automaton() is called on whatever was added
ConstructLowThreshold ==
    /\ pc = "new"
    /\ recognizer = "LowThresholdHIPAARecognizer"
    /\ pc' = "start"
    /\ UNCHANGED <<recognizer, text, vocab, entities, collected, returned,
                   filterVars, checkVars>>

NextDegraded ==
    ConstructICD10 \/ ConstructLowThreshold \/ AnalyzeICD10 \/ AnalyzeLowThreshold

SpecDegraded == InitDegraded /\ [][NextDegraded]_vars

\* ------------------------------------------------------------ claim C19
\* C19: when the vocabulary source is missing or unreadable, the dictionary
\* recognizer still constructs, and every analyze(text) call that follows returns
\* an empty result list without raising (ICD10Recognizer,
\* LowThresholdHIPAARecognizer).
C19_MissingVocabularyDegrades ==
    vocab = <<>> =>
        /\ pc \notin {"failed", "raised"}
        /\ pc = "returned" => returned = <<>>

\* ------------------------------------------------------------ the package imports
\* predefined_recognizers/__init__.py: the import statements in their order, the
\* module each one executes and the name it binds
IMPORTS ==
    <<[module |-> "presidio_analyzer.predefined_recognizers.transformers_recognizer",
       name |-> "TransformersRecognizer"],
      [module |-> "aba_routing_recognizer",
       name |-> "AbaRoutingRecognizer"],
      [module |-> "credit_card_recognizer",
       name |-> "CreditCardRecognizer"],
      [module |-> "crypto_recognizer",
       name |-> "CryptoRecognizer"],
      [module |-> "date_recognizer",
       name |-> "DateRecognizer"],
      [module |-> "email_recognizer",
       name |-> "EmailRecognizer"],
      [module |-> "es_nif_recognizer",
       name |-> "EsNifRecognizer"],
      [module |-> "iban_recognizer",
       name |-> "IbanRecognizer"],
      [module |-> "ip_recognizer",
       name |-> "IpRecognizer"],
      [module |-> "it_driver_license_recognizer",
       name |-> "ItDriverLicenseRecognizer"],
      [module |-> "it_fiscal_code_recognizer",
       name |-> "ItFiscalCodeRecognizer"],
      [module |-> "it_identity_card_recognizer",
       name |-> "ItIdentityCardRecognizer"],
      [module |-> "it_passport_recognizer",
       name |-> "ItPassportRecognizer"],
      [module |-> "it_vat_code",
       name |-> "ItVatCodeRecognizer"],
      [module |-> "medical_license_recognizer",
       name |-> "MedicalLicenseRecognizer"],
      [module |-> "phone_recognizer",
       name |-> "PhoneRecognizer"],
      [module |-> "sg_fin_recognizer",
       name |-> "SgFinRecognizer"],
      [module |-> "spacy_recognizer",
       name |-> "SpacyRecognizer"],
      [module |-> "stanza_recognizer",
       name |-> "StanzaRecognizer"],
      [module |-> "uk_nhs_recognizer",
       name |-> "NhsRecognizer"],
      [module |-> "url_recognizer",
       name |-> "UrlRecognizer"],
      [module |-> "us_bank_recognizer",
       name |-> "UsBankRecognizer"],
      [module |-> "us_driver_license_recognizer",
       name |-> "UsLicenseRecognizer"],
      [module |-> "us_itin_recognizer",
       name |-> "UsItinRecognizer"],
      [module |-> "us_passport_recognizer",
       name |-> "UsPassportRecognizer"],
      [module |-> "us_ssn_recognizer",
       name |-> "UsSsnRecognizer"],
      [module |-> "au_abn_recognizer",
       name |-> "AuAbnRecognizer"],
      [module |-> "au_acn_recognizer",
       name |-> "AuAcnRecognizer"],
      [module |-> "au_tfn_recognizer",
       name |-> "AuTfnRecognizer"],
      [module |-> "pl_pesel_recognizer",
       name |-> "PlPeselRecognizer"],
      [module |-> "azure_ai_language",
       name |-> "AzureAILanguageRecognizer"],
      [module |-> "in_aadhaar_recognizer",
       name |-> "InAadhaarRecognizer"],
      [module |-> "in_vehicle_registration_recognizer",
       name |-> "InVehicleRegistrationRecognizer"],
      [module |-> "medical_number_recognizer",
       name |-> "MedicalNumberRecognizer"],
      [module |-> "medical_record_number_recognizer",
       name |-> "MedicalRecordNumberRecognizer"],
      [module |-> "date_of_birth_recognizer",
       name |-> "DateOfBirthRecognizer"],
      [module |-> "encounter_number_recognizer",
       name |-> "EncounterNumberRecognizer"],
      [module |-> "word_list_recognizer",
       name |-> "WordlistRecognizer"],
      [module |-> "health_insurance_claim_number_recognizer",
       name |-> "HICNRecognizer"],
      [module |-> "australia_bank_account_numbers_recognizer",
       name |-> "AustraliaBankAccountRecognizer"],
      [module |-> "bank_state_branch_code_recognizer",
       name |-> "BSBCodeRecognizer"],
      [module |-> "australia_medicare_card_numbers_recognizer",
       name |-> "AustraliaMedicareCardRecognizer"],
      [module |-> "au_bic_swift_numbers_reconizer",
       name |-> "AustraliaBICRecognizer"],
      [module |-> "canada_bic_swift_numbers_reconizer",
       name |-> "CanadaBICRecognizer"],
      [module |-> "canada_driving_license_recognizer",
       name |-> "CanadaDriversLicenceRecognizer"],
      [module |-> "canada_social_insurance_numbers_recognizer",
       name |-> "CanadaSINRecognizer"],
      [module |-> "canada_PIPEDA_recognizer",
       name |-> "CanadaPIPEDARecognizer"],
      [module |-> "france_national_identification_numbers_recognizer",
       name |-> "FranceNationalIdRecognizer"],
      [module |-> "france_driving_licence_numbers_recognizer",
       name |-> "FranceDriversLicenceRecognizer"],
      [module |-> "hipaa_and_hitech_drug_recognizer",
       name |-> "DrugRecognizer"],
      [module |-> "hipaa_and_hitech_ingredients_recognizer",
       name |-> "IngredientRecognizer"],
      [module |-> "hipaa_and_hitech_ICD9_recognizer",
       name |-> "ICD9Recognizer"],
      [module |-> "hipaa_and_hitech_ICD10_recognizer",
       name |-> "ICD10Recognizer"],
      [module |-> "us_pin_recognizer",
       name |-> "PatientIDRecognizer"],
      [module |-> "hipaa_and_hitech_low_threshold_recognizer",
       name |-> "LowThresholdHIPAARecognizer"],
      [module |-> "business_terminology_recognizer",
       name |-> "BusinessTerminologyRecognizer"],
      [module |-> "us_formatted_ssn",
       name |-> "US_Formatted_SSN_Recognizer"],
      [module |-> "us_privacy_et_SSNTIN_recognizer",
       name |-> "SSNAndTINRecognizer"],
      [module |-> "us_privacy_formatted_and_unformatted_ssn",
       name |-> "SSN_Formatted_Unformatted_Recognizer"],
      [module |-> "germany_driving_licence_numbers_recognizer",
       name |-> "GermanDriversLicenseRecognizer"],
      [module |-> "germany_national_identification_number_recognizer",
       name |-> "GermanIDCardRecognizer"],
      [module |-> "germany_passport_numbers_recognizer",
       name |-> "GermanPassportRecognizer"],
      [module |-> "german_iban_number_recognizer",
       name |-> "GermanIBANRecognizer"],
      [module |-> "german_vat_number_recognizer",
       name |-> "GermanVATRecognizer"],
      [module |-> "us_et_ferpa",
       name |-> "FerpaRecognizer"],
      [module |-> "all_credit_card_number_recognizer",
       name |-> "AllCreditCardNumberRecognizer"],
      [module |-> "cc_numbers_Issuer_recognizer",
       name |-> "CreditCardIssuerRecognizer"],
      [module |-> "cc_track_data_attachments_recognizer",
       name |-> "CCTrackDataRecognizer"],
      [module |-> "us_driving_license_number_recognizer",
       name |-> "USDriversLicenseRecognizer"],
      [module |-> "us_PCI_DSS_recognizer",
       name |-> "PCI_DSS_CreditCardAndTrackDataRecognizer"],
      [module |-> "us_AZSB1338_recognizer",
       name |-> "US_AZSB1338Recognizer"],
      [module |-> "ca_CASB1386_recognizer",
       name |-> "CASB1386Recognizer"],
      [module |-> "us_COHB1119_recognizer",
       name |-> "COHB1119Recognizer"],
      [module |-> "us_CTSB650_recognizer",
       name |-> "ConnecticutDLPRecognizer"],
      [module |-> "us_DCCB16810_recognizer",
       name |-> "ColumbiaDLPRecognizer"],
      [module |-> "us_FLHB481_recognizer",
       name |-> "FLHB481Recognizer"],
      [module |-> "us_IDSB1374_recognizer",
       name |-> "IdahoSB1374Recognizer"],
      [module |-> "us_LASB205_recognizer",
       name |-> "LouisianaRecognizer"],
      [module |-> "us_MASS201_recognizer",
       name |-> "MassachusettsDataRecognizer"],
      [module |-> "us_HF2121_recognizer",
       name |-> "MinnesotaRecognizer"],
      [module |-> "us_NVSB347_recognizer",
       name |-> "NevadaRecognizer"],
      [module |-> "us_NJA4001_recognizer",
       name |-> "NewJerseyDLPRecognizer"],
      [module |-> "us_NHHB1660_recognizer",
       name |-> "NewHampshirePolicyRecognizer"],
      [module |-> "us_NYAB4254_recognizer",
       name |-> "NewYorkDataRecognizer"],
      [module |-> "us_OHHB104_recognizer",
       name |-> "OhioDataRecognizer"],
      [module |-> "us_OKHB2357_recognizer",
       name |-> "OklahomaRecognizer"],
      [module |-> "us_PASB712_recognizer",
       name |-> "PennsylvaniaRecognizer"],
      [module |-> "us_TXSB122_recognizer",
       name |-> "TexasPolicyRecognizer"],
      [module |-> "us_UTSB69_recognizer",
       name |-> "UtahPolicyRecognizer"],
      [module |-> "us_WASB6043_recognizer",
       name |-> "WashingtonStateRecognizer"],
      [module |-> "uk_driving_licence_numbers_recognizer",
       name |-> "UKDriversLicenseRecognizer"],
      [module |-> "uk_et_UKNINO_recognizer",
       name |-> "UKNINORecognizer"],
      [module |-> "uk_passport_recognizer",
       name |-> "UKPassportRecognizer"],
      [module |-> "uk_tax_identification_number_recognizer",
       name |-> "UKTaxpayerRecognizer"],
      [module |-> "italy_driving_licence_numbers_recognizer",
       name |-> "ItalyDriversLicenseRecognizer"],
      [module |-> "Italy_fiscal_code_recognizer",
       name |-> "ItalyFiscalCodeRecognizer"],
      [module |-> "italy_vat_numbers_recognizer",
       name |-> "ItalyVATRecognizer"],
      [module |-> "netherlands_passport_numbers_recognizer",
       name |-> "NetherlandsPassportRecognizer"],
      [module |-> "netherland_vat_numbers_recognizer",
       name |-> "NetherlandsVATRecognizer"],
      [module |-> "spain_iban_numbers_recognizer",
       name |-> "SpainIBANRecognizer"],
      [module |-> "spain_national_identification_numbers_recognizer",
       name |-> "SpainDNIRecognizer"],
      [module |-> "spain_passport_number_recognizer",
       name |-> "SpainPassportRecognizer"],
      [module |-> "spain_ssn_recognizer",
       name |-> "SpainSSNRecognizer"],
      [module |-> "spain_vat_numbers_recognizer",
       name |-> "SpainVATRecognizer"],
      [module |-> "eu_bic_numbers_recognizer",
       name |-> "EUBICSwiftRecognizer"],
      [module |-> "italy_iban_numbers_recognizer",
       name |-> "ItalyIBANRecognizer"],
      [module |-> "netherlands_iban_number_recognizer",
       name |-> "NetherlandsIBANRecognizer"],
      [module |-> "netherlands_driving_licence_numbers_recognizer",
       name |-> "NetherlandsDriversLicenseRecognizer"],
      [module |-> "netherlands_national_identification_numbers_recognizer",
       name |-> "NetherlandsNationalIDRecognizer"],
      [module |-> "newzealand_Inland_revenue_department_number_recognizer",
       name |-> "NewZealandInlandRevenueDepartmentNumberRecognizer"],
      [module |-> "newzealand_ministry_of_health_numbers_recognizer",
       name |-> "NewZealandHealthNumberRecognizer"],
      [module |-> "france_bic_swift_numbers_recognizer",
       name |-> "FranceBICSwiftRecognizer"],
      [module |-> "germany_bic_swift_numbers_recognizer",
       name |-> "GermanyBICSwiftRecognizer"],
      [module |-> "netherland_bic_swift_numbers_recognizer",
       name |-> "NetherlandsBICSwiftRecognizer"],
      [module |-> "spain_bic_swift_numbers_recognizer",
       name |-> "SpainBICSwiftRecognizer"],
      [module |-> "sweden_national_Identification_numbers_recognizer",
       name |-> "SwedenNationalIDRecognizer"],
      [module |-> "france_iban_numbers_recognizer",
       name |-> "FranceIBANRecognizer"],
      [module |-> "france_vat_numbers_recognizer",
       name |-> "FranceVATRecognizer"],
      [module |-> "us_custom_ssn_recognizer",
       name |-> "USCustomSSNRecognizer"],
      [module |-> "eu_credit_card_number_recognizer",
       name |-> "EUDebitCardRecognizer"],
      [module |-> "eu_iban_numbers_recognizer",
       name |-> "EU_IBANRecognizer"],
      [module |-> "eu_vat_number_recognizer",
       name |-> "EUVATRecognizer"],
      [module |-> "sweden_iban_numbers_recognizer",
       name |-> "SwedenIBANRecognizer"],
      [module |-> "sweden_swift_bic_number_recognizer",
       name |-> "SwedenBICSwiftRecognizer"],
      [module |-> "sweden_passport_numbers_recognizer",
       name |-> "SwedenPassportRecognizer"],
      [module |-> "sweden_vat_number_recognizer",
       name |-> "SwedenVATRecognizer"],
      [module |-> "custom_visa_credit_recognizer",
       name |-> "VisaCreditCardRecognizer"],
      [module |-> "credit_card_number_45_or_67_recognizer",
       name |-> "CreditCardRecognizer"],
      [module |-> "credit_debit_card_numbers_recognizer",
       name |-> "DatotelCreditDebitCardRecognizer"],
      [module |-> "bsfinvest_custom_account_numbers_recognizer",
       name |-> "BFSInvestCustomAccountRecognizer"],
      [module |-> "custom_BGFininc_wordlist_body_recognizer",
       name |-> "BGFinincCustomWordlistRecognizer"],
      [module |-> "hipaa_hitech_medium_threshold_recognizer",
       name |-> "HIPAAHITECHMEDIUMRecognizer"],
      [module |-> "dob_text_recognizer",
       name |-> "DOBRecognizer"],
      [module |-> "npi_recognizer",
       name |-> "NPIRecognizer"],
      [module |-> "hipaareg_recognizer",
       name |-> "HipaaRegRecognizer"],
      [module |-> "us_CORPFIN_recognizer",
       name |-> "USCorporateFinancialRecognizer"]>>

\* the data files of /usr/share/data that a module opens while it is imported
DataFiles == {"Drugs.json", "Ingredients.json"}

\* hipaa_and_hitech_drug_recognizer: drugs = load_data_lazy('Drugs.json', load_drugs)
\* hipaa_and_hitech_ingredients_recognizer:
\*     ingredients = load_data_lazy('Ingredients.json', load_ingredients)
ModuleLoads(module) ==
    IF module = "hipaa_and_hitech_drug_recognizer" THEN {"Drugs.json"}
    ELSE IF module = "hipaa_and_hitech_ingredients_recognizer" THEN {"Ingredients.json"}
    ELSE {}

\* load_data_lazy(filename, loader_function): the cache of a module being imported
\* is empty, so loader_function() runs; its open() raises FileNotFoundError for a
\* file that is not there, and nothing catches it
load_data_lazy(filename, present) ==
    IF filename \in present THEN [raised |-> FALSE] ELSE [raised |-> TRUE]

\* executing one module: it raises when one of its loads does
ModuleRaises(module, present) ==
    \E filename \in ModuleLoads(module) : load_data_lazy(filename, present).raised

\* vocab holds the data files that can be opened, idx the number of import
\* statements executed, collected the names bound in the package so far
PresentFiles == {vocab[k] : k \in 1..Len(vocab)}

InitImport ==
    /\ recognizer = "none"
    /\ pc = "importing"
    /\ vocab \in {<<>>, <<"Drugs.json">>, <<"Ingredients.json">>,
                  <<"Drugs.json", "Ingredients.json">>}
    /\ text = <<>>
    /\ entities = {}
    /\ collected = <<>>
    /\ returned = <<>>
    /\ FilterIdle
    /\ CheckIdle

\* the next import statement of __init__.py: the exception of a module leaves the
\* package's import, and the names bound so far go with the package
ImportNext ==
    /\ pc = "importing"
    /\ idx < Len(IMPORTS)
    /\ IF ModuleRaises(IMPORTS[idx + 1].module, PresentFiles)
       THEN /\ pc' = "raised"
            /\ collected' = <<>>
            /\ idx' = idx
       ELSE /\ pc' = IF idx + 1 = Len(IMPORTS) THEN "imported" ELSE "importing"
            /\ collected' = Append(collected, IMPORTS[idx + 1].name)
            /\ idx' = idx + 1
    /\ UNCHANGED <<recognizer, text, vocab, entities, returned, candidate, verdicts,
                   remainder, filterVars>>

NextImport == ImportNext

SpecImport == InitImport /\ [][NextImport]_vars

\* ------------------------------------------------------------ claim C20
\* C20: a single missing vocabulary file is non-fatal: when Drugs.json (or
\* Ingredients.json) cannot be opened, loading the drug/ingredient recognizer
\* module completes, and the other recognizers imported by the package remain
\* usable.
C20_MissingFileNotFatal ==
    Cardinality(PresentFiles) = 1 =>
        /\ pc # "raised"
        /\ pc = "imported" =>
              \A k \in 1..Len(IMPORTS) :
                  \E j \in 1..Len(collected) : collected[j] = IMPORTS[k].name

\* ------------------------------------------------------------ the vocabulary caches
\* Callers of load_preprocessed_patterns() (hipaa_and_hitech_ICD10_recognizer) and
\* of load_data_lazy(filename, loader_function) (hipaa_and_hitech_drug_recognizer)
\* run as threads; a step is what one thread does without another one in between.
\* In this specification
\*   recognizer  is the function the callers call,
\*   vocab       is what the data file holds,
\*   collected   is the module's cache,
\*   pc          maps each caller to its position,
\*   verdicts    maps each caller to its local variable data,
\*   returned    maps each caller to what its last call returned,
\*   idx         counts the loads that ran.
MaxCallers == 2
MaxLoads == 2

Callers == 1..MaxCallers

CacheFunctions == {"load_preprocessed_patterns", "load_data_lazy"}

\* an object: the load that made it, and its len(); None is no object
None == [id |-> 0, size |-> 0]
NoData == [patterns |-> None, automaton |-> None]

\* bool(x) of a list, a set, an Automaton or None
Truthy(x) == x.size > 0

\* what the file on disk may hold: nothing readable, or some patterns and words
FileContents ==
    {[readable |-> r, patterns |-> p, words |-> w] :
        r \in BOOLEAN, p \in 0..1, w \in 0..1}

InitCache ==
    /\ recognizer \in CacheFunctions
    /\ vocab \in {f \in FileContents :
                     /\ ~f.readable => f.patterns = 0 /\ f.words = 0
                     /\ recognizer = "load_data_lazy" => f.words = 0}
    /\ collected = NoData
    /\ pc = [c \in Callers |-> "called"]
    /\ verdicts = [c \in Callers |-> NoData]
    /\ returned = [c \in Callers |-> NoData]
    /\ idx = 0
    /\ text = <<>>
    /\ entities = {}
    /\ candidate = <<>>
    /\ remainder = 0
    /\ FilterIdle

CacheFrame == UNCHANGED <<recognizer, vocab, text, entities, candidate, remainder, filterVars>>

\* if cache_enabled and _cached_patterns and _automaton: return them
LppCheck(c) ==
    /\ recognizer = "load_preprocessed_patterns"
    /\ pc[c] = "called"
    /\ IF Truthy(collected.patterns) /\ Truthy(collected.automaton)
       THEN /\ returned' = [returned EXCEPT ![c] = collected]
            /\ pc' = [pc EXCEPT ![c] = "done"]
       ELSE /\ returned' = returned
            /\ pc' = [pc EXCEPT ![c] = "loading"]
    /\ UNCHANGED <<collected, verdicts, idx>>
    /\ CacheFrame

\* with open(...): data = pickle.load(f); on any exception return [], Automaton()
LppLoad(c) ==
    /\ recognizer = "load_preprocessed_patterns"
    /\ pc[c] = "loading"
    /\ idx < MaxLoads
    /\ idx' = idx + 1
    /\ IF vocab.readable
       THEN /\ verdicts' = [verdicts EXCEPT ![c] =
                               [patterns |-> [id |-> idx + 1, size |-> vocab.patterns],
                                automaton |-> [id |-> idx + 1, size |-> vocab.words]]]
            /\ pc' = [pc EXCEPT ![c] = "loaded"]
            /\ returned' = returned
       ELSE /\ verdicts' = verdicts
            /\ pc' = [pc EXCEPT ![c] = "done"]
            /\ returned' = [returned EXCEPT ![c] =
                               [patterns |-> [id |-> idx + 1, size |-> 0],
                                automaton |-> [id |-> idx + 1, size |-> 0]]]
    /\ UNCHANGED collected
    /\ CacheFrame

\* _cached_patterns = data['patterns']
LppStorePatterns(c) ==
    /\ recognizer = "load_preprocessed_patterns"
    /\ pc[c] = "loaded"
    /\ collected' = [collected EXCEPT !.patterns = verdicts[c].patterns]
    /\ pc' = [pc EXCEPT ![c] = "stored"]
    /\ UNCHANGED <<verdicts, returned, idx>>
    /\ CacheFrame

\* _automaton = data['automaton']; return data['patterns'], data['automaton']
LppStoreAutomaton(c) ==
    /\ recognizer = "load_preprocessed_patterns"
    /\ pc[c] = "stored"
    /\ collected' = [collected EXCEPT !.automaton = verdicts[c].automaton]
    /\ returned' = [returned EXCEPT ![c] = verdicts[c]]
    /\ pc' = [pc EXCEPT ![c] = "done"]
    /\ UNCHANGED <<verdicts, idx>>
    /\ CacheFrame

\* if filename not in load_data_lazy.cache: (the cached value is collected.patterns)
LazyCheck(c) ==
    /\ recognizer = "load_data_lazy"
    /\ pc[c] = "called"
    /\ pc' = [pc EXCEPT ![c] = IF collected.patterns = None THEN "loading" ELSE "returning"]
    /\ UNCHANGED <<collected, verdicts, returned, idx>>
    /\ CacheFrame

\* loader_function(): open() raises for a file that cannot be read
LazyLoad(c) ==
    /\ recognizer = "load_data_lazy"
    /\ pc[c] = "loading"
    /\ idx < MaxLoads
    /\ idx' = idx + 1
    /\ IF vocab.readable
       THEN /\ verdicts' = [verdicts EXCEPT ![c] =
                               [patterns |-> [id |-> idx + 1, size |-> vocab.patterns],
                                automaton |-> None]]
            /\ pc' = [pc EXCEPT ![c] = "loaded"]
       ELSE /\ verdicts' = verdicts
            /\ pc' = [pc EXCEPT ![c] = "raised"]
    /\ UNCHANGED <<collected, returned>>
    /\ CacheFrame

\* load_data_lazy.cache[filename] = the loaded value
LazyStore(c) ==
    /\ recognizer = "load_data_lazy"
    /\ pc[c] = "loaded"
    /\ collected' = [collected EXCEPT !.patterns = verdicts[c].patterns]
    /\ pc' = [pc EXCEPT ![c] = "returning"]
    /\ UNCHANGED <<verdicts, returned, idx>>
    /\ CacheFrame

\* return load_data_lazy.cache[filename]
LazyReturn(c) ==
    /\ recognizer = "load_data_lazy"
    /\ pc[c] = "returning"
    /\ returned' = [returned EXCEPT ![c] = collected]
    /\ pc' = [pc EXCEPT ![c] = "done"]
    /\ UNCHANGED <<collected, verdicts, idx>>
    /\ CacheFrame

\* the caller calls the function once more
CallAgain(c) ==
    /\ pc[c] \in {"done", "raised"}
    /\ idx < MaxLoads
    /\ pc' = [pc EXCEPT ![c] = "called"]
    /\ UNCHANGED <<collected, verdicts, returned, idx>>
    /\ CacheFrame

NextCache ==
    \E c \in Callers :
        \/ LppCheck(c) \/ LppLoad(c) \/ LppStorePatterns(c) \/ LppStoreAutomaton(c)
        \/ LazyCheck(c) \/ LazyLoad(c) \/ LazyStore(c) \/ LazyReturn(c)
        \/ CallAgain(c)

SpecCache == InitCache /\ [][NextCache]_vars

\* ------------------------------------------------------------ claim C21
\* C21: each vocabulary is loaded exactly once: under any sequence and any
\* interleaving of callers of load_preprocessed_patterns or of load_data_lazy for
\* one filename, the underlying load runs at most once, and the callers that have
\* returned hold the same cached objects, also when the loaded pattern list or
\* automaton is empty.
C21_LoadedOnce ==
    /\ idx <= 1
    /\ \A c \in Callers, d \in Callers :
          pc[c] = "done" /\ pc[d] = "done" => returned[c] = returned[d]

\* ------------------------------------------------------------ the SSN validators
\* known_invalid_ssns of DatotelCreditDebitCardRecognizer._check_ssn_validity
known_invalid_ssns ==
    {<<"1", "2", "3", "4", "5", "6", "7", "8", "9">>,
      <<"1", "1", "1", "1", "1", "1", "1", "1", "1">>,
      <<"2", "2", "2", "2", "2", "2", "2", "2", "2">>,
      <<"3", "3", "3", "3", "3", "3", "3", "3", "3">>,
      <<"4", "4", "4", "4", "4", "4", "4", "4", "4">>,
      <<"5", "5", "5", "5", "5", "5", "5", "5", "5">>,
      <<"6", "6", "6", "6", "6", "6", "6", "6", "6">>,
      <<"7", "7", "7", "7", "7", "7", "7", "7", "7">>,
      <<"8", "8", "8", "8", "8", "8", "8", "8", "8">>,
      <<"9", "9", "9", "9", "9", "9", "9", "9", "9">>,
      <<"0", "0", "0", "0", "0", "0", "0", "0", "0">>,
      <<"1", "2", "3", "4", "5", "4", "3", "2", "1">>,
      <<"1", "1", "2", "2", "3", "3", "4", "4", "5">>,
      <<"1", "1", "1", "2", "2", "3", "3", "3", "3">>,
      <<"1", "2", "3", "1", "2", "1", "2", "3", "4">>,
      <<"0", "7", "8", "0", "5", "1", "1", "2", "0">>,
      <<"2", "1", "9", "0", "9", "9", "9", "9", "9">>,
      <<"4", "5", "7", "5", "5", "5", "4", "6", "2">>}

\* the consecutive sequences listed in _check_ssn_validity
consecutive_sequences ==
    {<<"0", "1", "2", "3", "4", "5", "6", "7", "8">>,
      <<"1", "2", "3", "4", "5", "6", "7", "8", "9">>,
      <<"2", "3", "4", "5", "6", "7", "8", "9", "0">>,
      <<"3", "4", "5", "6", "7", "8", "9", "0", "1">>,
      <<"4", "5", "6", "7", "8", "9", "0", "1", "2">>,
      <<"5", "6", "7", "8", "9", "0", "1", "2", "3">>,
      <<"6", "7", "8", "9", "0", "1", "2", "3", "4">>,
      <<"7", "8", "9", "0", "1", "2", "3", "4", "5">>,
      <<"8", "9", "0", "1", "2", "3", "4", "5", "6">>,
      <<"9", "0", "1", "2", "3", "4", "5", "6", "7">>,
      <<"9", "8", "7", "6", "5", "4", "3", "2", "1">>,
      <<"8", "7", "6", "5", "4", "3", "2", "1", "0">>,
      <<"7", "6", "5", "4", "3", "2", "1", "0", "9">>,
      <<"6", "5", "4", "3", "2", "1", "0", "9", "8">>,
      <<"5", "4", "3", "2", "1", "0", "9", "8", "7">>,
      <<"4", "3", "2", "1", "0", "9", "8", "7", "6">>,
      <<"3", "2", "1", "0", "9", "8", "7", "6", "5">>,
      <<"2", "1", "0", "9", "8", "7", "6", "5", "4">>,
      <<"1", "0", "9", "8", "7", "6", "5", "4", "3">>}

advertising_areas ==
    {<<"1", "2", "3">>,
      <<"1", "1", "1">>,
      <<"2", "2", "2">>,
      <<"3", "3", "3">>,
      <<"4", "4", "4">>,
      <<"5", "5", "5">>,
      <<"6", "6", "6">>,
      <<"7", "7", "7">>,
      <<"8", "8", "8">>,
      <<"9", "9", "9">>}

advertising_groups ==
    {<<"4", "5">>,
      <<"1", "1">>,
      <<"2", "2">>,
      <<"3", "3">>,
      <<"4", "4">>,
      <<"5", "5">>,
      <<"6", "6">>,
      <<"7", "7">>,
      <<"8", "8">>,
      <<"9", "9">>}

advertising_serials ==
    {<<"6", "7", "8", "9">>,
      <<"1", "1", "1", "1">>,
      <<"2", "2", "2", "2">>,
      <<"3", "3", "3", "3">>,
      <<"4", "4", "4", "4">>,
      <<"5", "5", "5", "5">>,
      <<"6", "6", "6", "6">>,
      <<"7", "7", "7", "7">>,
      <<"8", "8", "8", "8">>,
      <<"9", "9", "9", "9">>}

\* a validator that calls a consecutive sequence suspicious
check_ssn_validity_sequence_suspicious(pattern_text) ==
    LET only_digits == OnlyDigits(pattern_text)
        area == SubSeq(only_digits, 1, 3)
        group == SubSeq(only_digits, 4, 5)
        serial == SubSeq(only_digits, 6, 9)
        area_num == IntOf(area)
        group_num == IntOf(group)
        serial_num == IntOf(serial)
    IN  IF Len(only_digits) # 9 THEN "invalid"
        ELSE IF only_digits \in known_invalid_ssns THEN "invalid"
        ELSE IF ~(area_num \in 1..899) \/ area_num = 666 THEN "invalid"
        ELSE IF ~(group_num \in 1..99) THEN "invalid"
        ELSE IF ~(serial_num \in 1..9999) THEN "invalid"
        ELSE IF Cardinality(Range(only_digits)) = 1 THEN "invalid"
        ELSE IF only_digits \in consecutive_sequences THEN "suspicious"
        ELSE IF SubSeq(only_digits, 1, 3) = SubSeq(only_digits, 4, 6)
                /\ SubSeq(only_digits, 4, 6) = SubSeq(only_digits, 7, 9)
        THEN "invalid"
        ELSE IF Cardinality(Range(only_digits)) <= 3 THEN "suspicious"
        ELSE IF /\ area \in advertising_areas
                /\ group \in advertising_groups
                /\ serial \in advertising_serials
        THEN "suspicious"
        ELSE "valid"

\* DatotelCreditDebitCardRecognizer._check_ssn_validity(pattern_text)
check_ssn_validity(pattern_text) ==
    LET only_digits == OnlyDigits(pattern_text)
        area == SubSeq(only_digits, 1, 3)
        group == SubSeq(only_digits, 4, 5)
        serial == SubSeq(only_digits, 6, 9)
        area_num == IntOf(area)
        group_num == IntOf(group)
        serial_num == IntOf(serial)
    IN  IF Len(only_digits) # 9 THEN "invalid"
        ELSE IF only_digits \in known_invalid_ssns THEN "invalid"
        ELSE IF ~(area_num \in 1..899) \/ area_num = 666 THEN "invalid"
        ELSE IF ~(group_num \in 1..99) THEN "invalid"
        ELSE IF ~(serial_num \in 1..9999) THEN "invalid"
        ELSE IF Cardinality(Range(only_digits)) = 1 THEN "invalid"
        ELSE IF only_digits \in consecutive_sequences THEN "invalid"
        ELSE IF SubSeq(only_digits, 1, 3) = SubSeq(only_digits, 4, 6)
                /\ SubSeq(only_digits, 4, 6) = SubSeq(only_digits, 7, 9)
        THEN "invalid"
        ELSE IF Cardinality(Range(only_digits)) <= 3 THEN "suspicious"
        ELSE IF /\ area \in advertising_areas
                /\ group \in advertising_groups
                /\ serial \in advertising_serials
        THEN "suspicious"
        ELSE "valid"

\* ------------------------------------------------------------ the validators called
SsnValidators == {"SSN_Formatted_Unformatted_Recognizer", "DatotelCreditDebitCardRecognizer"}

SsnAreas ==
    {<<"0", "0", "0">>,
      <<"0", "0", "1">>,
      <<"1", "1", "1">>,
      <<"1", "2", "3">>,
      <<"2", "1", "2">>,
      <<"6", "6", "6">>,
      <<"8", "9", "9">>,
      <<"9", "0", "0">>}

SsnGroups ==
    {<<"0", "0">>,
      <<"1", "1">>,
      <<"1", "2">>,
      <<"4", "5">>}

SsnSerials ==
    {<<"0", "0", "0", "0">>,
      <<"1", "1", "1", "1">>,
      <<"1", "2", "1", "2">>,
      <<"3", "4", "5", "6">>,
      <<"6", "7", "8", "9">>}

\* the nine-digit numbers the validators are called with: the listed numbers of both
\* validators, the numbers of one digit, and every area, group and serial above
SsnNumbers ==
    known_invalids \cup known_invalid_ssns \cup consecutive_sequences
    \cup {[i \in 1..9 |-> d] : d \in Digits}
    \cup {a \o g \o s : a \in SsnAreas, g \in SsnGroups, s \in SsnSerials}

\* AAA-GG-SSSS
Hyphenated(d) == SubSeq(d, 1, 3) \o <<"-">> \o SubSeq(d, 4, 5) \o <<"-">> \o SubSeq(d, 6, 9)

SsnTexts == SsnNumbers \cup {Hyphenated(d) : d \in SsnNumbers}

InitSsn ==
    /\ recognizer \in SsnValidators
    /\ pc = "start"
    /\ candidate \in SsnTexts
    /\ verdicts = <<>>
    /\ idx = 0
    /\ remainder = 0
    /\ FilterIdle
    /\ AnalyzeIdle

CallCheckValidity ==
    /\ pc = "start"
    /\ recognizer = "SSN_Formatted_Unformatted_Recognizer"
    /\ verdicts' = <<check_validity(candidate)>>
    /\ pc' = "returned"
    /\ UNCHANGED <<recognizer, candidate, idx, remainder, filterVars, analyzeVars>>

CallCheckSsnValidity ==
    /\ pc = "start"
    /\ recognizer = "DatotelCreditDebitCardRecognizer"
    /\ verdicts' = <<check_ssn_validity(candidate)>>
    /\ pc' = "returned"
    /\ UNCHANGED <<recognizer, candidate, idx, remainder, filterVars, analyzeVars>>

NextSsn == CallCheckValidity \/ CallCheckSsnValidity

SpecSsn == InitSsn /\ [][NextSsn]_vars

\* ------------------------------------------------------------ claim C22
\* area not 000, not 666, not 9xx; group not 00; serial not 0000
WellFormedSsn(d) ==
    /\ Len(d) = 9
    /\ SubSeq(d, 1, 3) \notin {<<"0", "0", "0">>, <<"6", "6", "6">>}
    /\ d[1] # "9"
    /\ SubSeq(d, 4, 5) # <<"0", "0">>
    /\ SubSeq(d, 6, 9) # <<"0", "0", "0", "0">>

KnownFake(r, d) ==
    IF r = "SSN_Formatted_Unformatted_Recognizer" THEN d \in known_invalids
    ELSE d \in known_invalid_ssns

IdenticalDigits(d) == Cardinality(Range(d)) = 1

\* the digits ascend or descend by one from the first to the last
SequentialRun(d) == Contains(d, DigitSeq) \/ Contains(d, Reverse(DigitSeq))

\* a well-formed number that is known fake, of one digit, or a sequential run
Flagged(r, d) ==
    WellFormedSsn(d) /\ (KnownFake(r, d) \/ IdenticalDigits(d) \/ SequentialRun(d))

NhiLetters == UpperLetters \ {"I", "O"}

letters_to_digits(c) == CHOOSE i \in 1..26 : UpperSeq[i] = c

NhiWeights == <<7, 6, 5, 4, 3, 2>>

\* the lookups and int() calls of the old (7 characters) and new (8 characters)
\* branch succeed; a KeyError, ValueError or IndexError is caught and gives False
NhiParses(num_upper) ==
    IF Len(num_upper) = 7
    THEN /\ \A i \in 1..3 : num_upper[i] \in NhiLetters
         /\ \A i \in 4..7 : num_upper[i] \in Digits
    ELSE /\ Len(num_upper) = 8
         /\ \A i \in {1, 2, 3, 6} : num_upper[i] \in NhiLetters
         /\ \A i \in {4, 5, 8} : num_upper[i] \in Digits

NhiDigits(num_upper) ==
    IF Len(num_upper) = 7
    THEN <<letters_to_digits(num_upper[1]), letters_to_digits(num_upper[2]),
           letters_to_digits(num_upper[3]), DigitValue(num_upper[4]),
           DigitValue(num_upper[5]), DigitValue(num_upper[6])>>
    ELSE <<letters_to_digits(num_upper[1]), letters_to_digits(num_upper[2]),
           letters_to_digits(num_upper[3]), DigitValue(num_upper[4]),
           DigitValue(num_upper[5]), letters_to_digits(num_upper[6])>>

\* sum(d * w for d, w in zip(digits, weights))
WeightedSum(digits, weights) ==
    SumSeq([i \in 1..Min(Len(digits), Len(weights)) |-> digits[i] * weights[i]])

\* (11 - total % 11) % 11
NhiCheckDigit(num_upper) ==
    (11 - (WeightedSum(NhiDigits(num_upper), NhiWeights) % 11)) % 11

\* a validator in which the check value 10 stands for the check digit 0
is_valid_nhi_checksum_ten_as_zero(number) ==
    LET num_upper == Upper(number)
    IN  IF ~NhiParses(num_upper) THEN FALSE
        ELSE LET provided_check == DigitValue(num_upper[Len(num_upper)])
                 check_digit == NhiCheckDigit(num_upper)
             IN  (check_digit % 10) = provided_check

\* NewZealandHealthNumberRecognizer._is_valid_nhi_checksum(number)
is_valid_nhi_checksum(number) ==
    LET num_upper == Upper(number)
    IN  IF ~NhiParses(num_upper) THEN FALSE
        ELSE LET provided_check == DigitValue(num_upper[Len(num_upper)])
                 check_digit == NhiCheckDigit(num_upper)
             IN  IF check_digit = 10 THEN FALSE
                 ELSE check_digit = provided_check

\* ------------------------------------------------------------ GermanVATRecognizer
\* re.fullmatch(r"DE(\d{9})", vat)
VatFullMatch(vat) ==
    /\ Len(vat) = 11
    /\ vat[1] = "D" /\ vat[2] = "E"
    /\ \A i \in 3..11 : vat[i] \in Digits

\* a step that keeps the sum 0
vat_step_without_ten(product, d) == (2 * ((d + product) % 10)) % 11

\* the lambda of reduce: (2 * (10 if (d + product) % 10 == 0 else (d + product) % 10)) % 11
vat_step(product, d) ==
    (2 * (IF (d + product) % 10 = 0 THEN 10 ELSE (d + product) % 10)) % 11

\* the values the running product of reduce(..., digits[:-1], 10) takes
RECURSIVE VatProducts(_, _)
VatProducts(product, ds) ==
    IF ds = <<>> THEN <<product>>
    ELSE <<product>> \o VatProducts(vat_step(product, Head(ds)), Tail(ds))

VatTrace(vat) ==
    IF VatFullMatch(vat)
    THEN VatProducts(10, [i \in 1..8 |-> DigitValue(vat[i + 2])])
    ELSE <<>>

\* GermanVATRecognizer._validate_checksum(vat)
Vat_validate_checksum(vat) ==
    IF ~VatFullMatch(vat) THEN FALSE
    ELSE LET trace == VatTrace(vat)
             p == trace[Len(trace)]
             r == 11 - p
         IN  IF r = 10 THEN FALSE
             ELSE (IF r = 11 THEN 0 ELSE r) = DigitValue(vat[11])

\* ------------------------------------------------------------ the IRD number
primary == <<3, 2, 7, 6, 5, 4, 3, 2>>
secondary == <<7, 4, 3, 2, 5, 2, 7, 6>>

\* number = "0" + number for eight characters
IrdPadded(number) == IF Len(number) = 8 THEN <<"0">> \o number ELSE number

IrdRemainder(digits, weights) == WeightedSum(SubSeq(digits, 1, 8), weights) % 11

\* check(weights) inside _is_valid_ird_checksum
ird_check(digits, weights) ==
    LET remainder_ == IrdRemainder(digits, weights)
        check_digit == digits[9]
    IN  IF remainder_ = 0 THEN check_digit = 0
        ELSE IF remainder_ = 1 THEN FALSE
        ELSE check_digit = 11 - remainder_

\* NewZealandInlandRevenueDepartmentNumberRecognizer._is_valid_ird_checksum(number)
is_valid_ird_checksum(number) ==
    IF Len(number) \notin {8, 9} THEN FALSE
    ELSE IF \E i \in 1..Len(number) : number[i] \notin Digits THEN FALSE
    ELSE LET padded == IrdPadded(number)
             digits == [i \in 1..9 |-> DigitValue(padded[i])]
         IN  ird_check(digits, primary) \/ ird_check(digits, secondary)

\* ------------------------------------------------------------ the validators called
Mod11Validators ==
    {"NewZealandHealthNumberRecognizer", "GermanVATRecognizer",
     "NewZealandInlandRevenueDepartmentNumberRecognizer"}

\* every string of digits of length n
RECURSIVE DigitStrings(_)
DigitStrings(n) ==
    IF n = 0 THEN {<<>>} ELSE {<<d>> \o s : d \in Digits, s \in DigitStrings(n - 1)}

NhiPrefixes ==
    {<<"Z", "Z", "Z">>,
     <<"A", "B", "C">>,
     <<"a", "b", "c">>,
     <<"J", "K", "L">>,
     <<"A", "I", "B">>,
     <<"A", "1", "C">>}

VatPrefixes ==
    {<<"1", "3", "6", "6", "9", "5">>,
     <<"8", "1", "1", "1", "2", "8">>,
     <<"0", "0", "0", "0", "0", "0">>,
     <<"9", "9", "9", "9", "9", "9">>}

IrdPrefixes ==
    {<<"4", "9", "0", "9", "1">>,
     <<"3", "5", "9", "0", "1">>,
     <<"1", "3", "6", "4", "1", "0">>,
     <<"0", "0", "0", "0", "0">>,
     <<"9", "9", "9", "9", "9", "9">>}

Malformed ==
    {<<>>,
     <<"x">>,
     <<"d", "e", "1", "3", "6", "6", "9", "5", "9", "7", "6">>,
     <<"D", "E", "1", "3", "6", "6", "9", "5", "9", "7">>,
     <<"D", "E", "1", "3", "6", "6", "9", "5", "9", "7", "6", "0">>,
     <<"D", "E", "1", "3", "6", "6", "9", "5", "9", "7", "a">>,
     <<"Z", "Z", "Z", "0", "0">>,
     <<"Z", "Z", "Z", "0", "0", "1", "6", "0", "0">>,
     <<"1", "2", "3", "4", "5", "6", "7", "a">>,
     <<"1", "2", "3", "4", "5", "6", "7">>,
     <<"1", "2", "3", "4", "5", "6", "7", "8", "9", "0">>,
     <<"4", "9", "-", "0", "9", "1", "-", "8", "5", "0">>}

\* the candidates: each prefix followed by every three digits; for the health
\* number also the new formats, of seven and of eight characters
Mod11Candidates(r) ==
    Malformed \cup
    CASE r = "NewZealandHealthNumberRecognizer" ->
           {p \o <<d>> \o s : p \in NhiPrefixes, d \in {"0", "9"}, s \in DigitStrings(3)}
           \cup {p \o s \o <<l, d>> : p \in NhiPrefixes, s \in {<<"0", "0">>, <<"1", "2">>},
                                      l \in {"A", "z", "I"}, d \in Digits}
           \cup {p \o s \o <<l, x, d>> : p \in NhiPrefixes, s \in {<<"0", "0">>, <<"1", "2">>},
                                         l \in {"A", "z", "I"}, x \in {"0", "X"}, d \in Digits}
      [] r = "GermanVATRecognizer" ->
           {<<"D", "E">> \o p \o s : p \in VatPrefixes, s \in DigitStrings(3)}
      [] r = "NewZealandInlandRevenueDepartmentNumberRecognizer" ->
           {p \o s : p \in IrdPrefixes, s \in DigitStrings(3)}

InitMod11 ==
    /\ recognizer \in Mod11Validators
    /\ pc = "start"
    /\ candidate \in Mod11Candidates(recognizer)
    /\ verdicts = <<>>
    /\ collected = <<>>
    /\ idx = 0
    /\ remainder = 0
    /\ text = <<>>
    /\ vocab = <<>>
    /\ entities = {}
    /\ returned = <<>>
    /\ FilterIdle

\* the call ends with its answer; trace is what the running product went through
FinishMod11(answer, trace) ==
    /\ verdicts' = <<answer>>
    /\ collected' = trace
    /\ pc' = "returned"
    /\ UNCHANGED <<recognizer, candidate, idx, remainder, text, vocab, entities, returned, filterVars>>

CallIsValidNhiChecksum ==
    /\ pc = "start"
    /\ recognizer = "NewZealandHealthNumberRecognizer"
    /\ FinishMod11(is_valid_nhi_checksum(candidate), <<>>)

CallVatValidateChecksum ==
    /\ pc = "start"
    /\ recognizer = "GermanVATRecognizer"
    /\ FinishMod11(Vat_validate_checksum(candidate), VatTrace(candidate))

CallIsValidIrdChecksum ==
    /\ pc = "start"
    /\ recognizer = "NewZealandInlandRevenueDepartmentNumberRecognizer"
    /\ FinishMod11(is_valid_ird_checksum(candidate), <<>>)

NextMod11 == CallIsValidNhiChecksum \/ CallVatValidateChecksum \/ CallIsValidIrdChecksum

SpecMod11 == InitMod11 /\ [][NextMod11]_vars

\* ------------------------------------------------------------ claim C23
\* the digits of an IRD number of eight or nine digits
IrdDigitsOf(number) == [i \in 1..9 |-> DigitValue(IrdPadded(number)[i])]

IrdWellFormed(number) == Len(number) \in {8, 9} /\ \A i \in 1..Len(number) : number[i] \in Digits

\* C23: a check value that means "no valid number" gives Invalid whatever the
\* check character is: _is_valid_nhi_checksum returns False whenever
\* (11 - sum mod 11) mod 11 is 10, _validate_checksum returns False whenever
\* 11 - product is 10, and in _is_valid_ird_checksum a weighting whose remainder
\* is 1 never passes.
C23_NoValidNumberIsInvalid ==
    pc = "returned" =>
        /\ recognizer = "NewZealandHealthNumberRecognizer"
           /\ NhiParses(Upper(candidate))
           /\ NhiCheckDigit(Upper(candidate)) = 10
           => verdicts = <<FALSE>>
        /\ recognizer = "GermanVATRecognizer"
           /\ VatFullMatch(candidate)
           /\ 11 - collected[Len(collected)] = 10
           => verdicts = <<FALSE>>
        /\ recognizer = "NewZealandInlandRevenueDepartmentNumberRecognizer"
           /\ IrdWellFormed(candidate)
           => /\ \A w \in {primary, secondary} :
                    IrdRemainder(IrdDigitsOf(candidate), w) = 1
                    => ~ird_check(IrdDigitsOf(candidate), w)
              /\ verdicts = <<TRUE>>
                 => \E w \in {primary, secondary} :
                        /\ IrdRemainder(IrdDigitsOf(candidate), w) # 1
                        /\ ird_check(IrdDigitsOf(candidate), w)

\* a health number whose check value is 10 and whose check character is 0
C23_Witness ==
    /\ pc = "returned"
    /\ recognizer = "NewZealandHealthNumberRecognizer"
    /\ Len(candidate) = 7
    /\ NhiParses(Upper(candidate))
    /\ NhiCheckDigit(Upper(candidate)) = 10
    /\ candidate[7] = "0"
    /\ verdicts = <<FALSE>>

\* ------------------------------------------------------------ claim C27
\* C27: in _validate_checksum the running product, which starts at 10, stays in
\* 1..10, so that 11 - product is never 11, and no 'DE' + 9 digits whose ninth
\* digit is 0 is accepted.
C27_ProductInRange ==
    pc = "returned" /\ recognizer = "GermanVATRecognizer" /\ VatFullMatch(candidate)
        => /\ Len(collected) = 9
           /\ \A i \in 1..Len(collected) : collected[i] \in 1..10
           /\ 11 - collected[Len(collected)] # 11
           /\ candidate[11] = "0" => verdicts = <<FALSE>>

\* a number with ninth digit 0 is refused, after a sum of 0 was replaced by 10
C27_Witness ==
    /\ pc = "returned"
    /\ recognizer = "GermanVATRecognizer"
    /\ VatFullMatch(candidate)
    /\ candidate[11] = "0"
    /\ verdicts = <<FALSE>>
    /\ \E i \in 1..8 : (DigitValue(candidate[i + 2]) + collected[i]) % 10 = 0

\* ------------------------------------------------------------ NewZealandHealthNumberRecognizer
NhiPATTERNS ==
    <<[name |-> "NZ_Health_Number_Old",
       regex |-> Cat(<<WordBoundary, Rep(Cls({"A", "B", "C", "D", "E", "F", "G", "H", "a", "b", "c",
          "d", "e", "f", "g", "h", "J", "K", "L", "M", "N", "j", "k", "l", "m", "n", "P", "Q",
          "R", "S", "T", "U", "V", "W", "X", "Y", "Z", "p", "q", "r", "s", "t", "u", "v", "w",
          "x", "y", "z"}), 3, 3), D(4), WordBoundary>>),
       score |-> 40],
      [name |-> "NZ_Health_Number_New",
       regex |-> Cat(<<WordBoundary, Rep(Cls({"A", "B", "C", "D", "E", "F", "G", "H", "a", "b", "c",
          "d", "e", "f", "g", "h", "J", "K", "L", "M", "N", "j", "k", "l", "m", "n", "P", "Q",
          "R", "S", "T", "U", "V", "W", "X", "Y", "Z", "p", "q", "r", "s", "t", "u", "v", "w",
          "x", "y", "z"}), 3, 3), D(2), Cls({"A", "B", "C", "D", "E", "F", "G", "H", "a", "b",
          "c", "d", "e", "f", "g", "h", "J", "K", "L", "M", "N", "j", "k", "l", "m", "n", "P",
          "Q", "R", "S", "T", "U", "V", "W", "X", "Y", "Z", "p", "q", "r", "s", "t", "u", "v",
          "w", "x", "y", "z"}), Cls(Digits), WordBoundary>>),
       score |-> 60],
      [name |-> "HPI_Number_Format",
       regex |-> Cat(<<WordBoundary, Rep(Cls({"A", "B", "C", "D", "E", "F", "G", "H", "a", "b", "c",
          "d", "e", "f", "g", "h", "J", "K", "L", "M", "N", "j", "k", "l", "m", "n", "P", "Q",
          "R", "S", "T", "U", "V", "W", "X", "Y", "Z", "p", "q", "r", "s", "t", "u", "v", "w",
          "x", "y", "z"}), 3, 3), D(4), WordBoundary>>),
       score |-> 40],
      [name |-> "HPI_CPN_Format",
       regex |-> Cat(<<WordBoundary, Rep(Cls(Digits), 2, 3), Rep(Cls({"A", "B", "C", "D", "E", "F",
          "G", "H", "a", "b", "c", "d", "e", "f", "g", "h", "J", "K", "L", "M", "N", "j", "k",
          "l", "m", "n", "P", "Q", "R", "S", "T", "U", "V", "W", "X", "Y", "Z", "p", "q", "r",
          "s", "t", "u", "v", "w", "x", "y", "z"}), 3, 4), WordBoundary>>),
       score |-> 50]>>

NhiCONTEXT ==
    <<<<"h", "e", "a", "l", "t", "h", " ", "n", "u", "m", "b", "e", "r">>,
      <<"n", "h", "i", " ", "n", "u", "m", "b", "e", "r">>,
      <<"n", "h", "i">>,
      <<"n", "a", "t", "i", "o", "n", "a", "l", " ", "h", "e", "a", "l", "t", "h", " ", "i", "n", "d", "e", "x">>,
      <<"m", "i", "n", "i", "s", "t", "r", "y", " ", "o", "f", " ", "h", "e", "a", "l", "t", "h">>,
      <<"n", "e", "w", " ", "z", "e", "a", "l", "a", "n", "d", " ", "h", "e", "a", "l", "t", "h", " ", "n", "u", "m", "b", "e", "r">>,
      <<"n", "z", " ", "h", "e", "a", "l", "t", "h", " ", "n", "u", "m", "b", "e", "r">>,
      <<"h", "e", "a", "l", "t", "h", " ", "i", "d">>,
      <<"m", "e", "d", "i", "c", "a", "l", " ", "n", "u", "m", "b", "e", "r">>,
      <<"p", "a", "t", "i", "e", "n", "t", " ", "i", "d">>,
      <<"m", "e", "d", "i", "c", "a", "l", " ", "r", "e", "c", "o", "r", "d">>,
      <<"h", "e", "a", "l", "t", "h", " ", "s", "y", "s", "t", "e", "m">>,
      <<"n", "a", "t", "i", "o", "n", "a", "l", " ", "h", "e", "a", "l", "t", "h", " ", "i", "d", "e", "n", "t", "i", "f", "i", "e", "r">>,
      <<"h", "e", "a", "l", "t", "h", " ", "i", "n", "d", "e", "x">>,
      <<"h", "p", "i">>,
      <<"h", "e", "a", "l", "t", "h", " ", "p", "r", "a", "c", "t", "i", "t", "i", "o", "n", "e", "r", " ", "i", "n", "d", "e", "x">>,
      <<"p", "r", "a", "c", "t", "i", "t", "i", "o", "n", "e", "r", " ", "n", "u", "m", "b", "e", "r">>,
      <<"d", "o", "c", "t", "o", "r", " ", "i", "d">>,
      <<"n", "u", "r", "s", "e", " ", "i", "d">>,
      <<"h", "e", "a", "l", "t", "h", " ", "p", "r", "a", "c", "t", "i", "t", "i", "o", "n", "e", "r", " ", "i", "d">>,
      <<"p", "r", "o", "v", "i", "d", "e", "r", " ", "i", "d">>,
      <<"p", "r", "a", "c", "t", "i", "t", "i", "o", "n", "e", "r", " ", "i", "d", "e", "n", "t", "i", "f", "i", "e", "r">>,
      <<"n", "u", "r", "s", "e", " ", "i", "d", "e", "n", "t", "i", "f", "i", "e", "r">>,
      <<"d", "o", "c", "t", "o", "r", " ", "i", "d", "e", "n", "t", "i", "f", "i", "e", "r">>,
      <<"h", "e", "a", "l", "t", "h", " ", "p", "r", "o", "f", "e", "s", "s", "i", "o", "n", "a", "l">>,
      <<"m", "e", "d", "i", "c", "a", "l", " ", "p", "r", "a", "c", "t", "i", "t", "i", "o", "n", "e", "r">>,
      <<"c", "l", "i", "n", "i", "c", "i", "a", "n", " ", "i", "d">>,
      <<"h", "e", "a", "l", "t", "h", "c", "a", "r", "e", " ", "p", "r", "o", "v", "i", "d", "e", "r">>,
      <<"p", "r", "a", "c", "t", "i", "t", "i", "o", "n", "e", "r", " ", "i", "n", "d", "e", "x">>,
      <<"h", "p", "i", "-", "c", "p", "n">>,
      <<"c", "p", "n">>,
      <<"c", "o", "m", "m", "o", "n", " ", "p", "e", "r", "s", "o", "n", " ", "n", "u", "m", "b", "e", "r">>,
      <<"c", "o", "m", "m", "o", "n", " ", "p", "e", "r", "s", "o", "n", " ", "i", "d", "e", "n", "t", "i", "f", "i", "e", "r">>,
      <<"h", "e", "a", "l", "t", "h", " ", "p", "r", "o", "v", "i", "d", "e", "r", " ", "i", "n", "d", "e", "x">>,
      <<"t", "e", " ", "w", "h", "a", "t", "u", " ", "o", "r", "a">>,
      <<"h", "p", "i", " ", "n", "u", "m", "b", "e", "r">>,
      <<"c", "p", "i">>>>

\* {pattern.regex: pattern.name for pattern in self.patterns}, as the list of its
\* items: a regex that comes again keeps its place and takes the later name
RECURSIVE pattern_mapping(_, _)
pattern_mapping(pats, items) ==
    IF pats = <<>> THEN items
    ELSE LET p == Head(pats)
             known == \E k \in 1..Len(items) : items[k].regex = p.regex
         IN  pattern_mapping(Tail(pats),
                 IF known
                 THEN [k \in 1..Len(items) |->
                          IF items[k].regex = p.regex
                          THEN [regex |-> p.regex, name |-> p.name] ELSE items[k]]
                 ELSE Append(items, [regex |-> p.regex, name |-> p.name]))

\* re.match(regex, number)
Match(re, cs) == Ends(re, cs, 0) # <<>>

\* the name of the first item whose regex matches the number, or "None"
PatternNameOf(number) ==
    LET items == pattern_mapping(NhiPATTERNS, <<>>)
        hits == {k \in 1..Len(items) : Match(items[k].regex, number)}
    IN  IF hits = {} THEN "None"
        ELSE items[CHOOSE k \in hits : \A j \in hits : k <= j].name

\* NewZealandHealthNumberRecognizer._is_valid_cpn_format(number)
is_valid_cpn_format(number) ==
    /\ Len(number) = 6
    /\ \A i \in 1..Len(number) : number[i] \notin {"I", "O", "i", "o"}
    /\ Match(Cat(<<AtStart, Rep(Cls(Digits), 2, 3), Rep(Cls({"A", "B", "C", "D", "E", "F", "G",
          "H", "a", "b", "c", "d", "e", "f", "g", "h", "J", "K", "L", "M", "N", "j", "k", "l",
          "m", "n", "P", "Q", "R", "S", "T", "U", "V", "W", "X", "Y", "Z", "p", "q", "r", "s",
          "t", "u", "v", "w", "x", "y", "z"}), 3, 4), AtEnd>>), number)

\* the score a result gets before the context boost
NhiBaseScore(pattern_name, number, original_score) ==
    IF pattern_name \in {"NZ_Health_Number_Old", "NZ_Health_Number_New"}
    THEN (IF is_valid_nhi_checksum(number) THEN 70 ELSE 10)
    ELSE IF pattern_name = "HPI_Number_Format" THEN 50
    ELSE IF pattern_name = "HPI_CPN_Format"
    THEN (IF is_valid_cpn_format(number) THEN 60 ELSE 20)
    ELSE original_score

\* NewZealandHealthNumberRecognizer.analyze(text, entities), one entry per result
Nhi_analyze(tx) ==
    LET base_results == ParentAnalyze(NhiPATTERNS, tx, "NZ_Health_Number", NoHook, NoHook)
        context_present == KeywordInLowered(NhiCONTEXT, tx)
        enhance(r) ==
            LET number == Slice(tx, r.start, r.end)
                pattern_name == PatternNameOf(number)
                base == NhiBaseScore(pattern_name, number, r.score)
            IN  [start |-> r.start, end |-> r.end, pattern_name |-> pattern_name,
                 base |-> base,
                 score |-> IF context_present THEN Min(base + 30, 100) ELSE base]
    IN  [k \in 1..Len(base_results) |-> enhance(base_results[k])]

MaxNhiTokens == 2

NhiTokens ==
    {<<"A", "B", "C", "1", "2", "3", "5">>,
     <<"Z", "Z", "Z", "0", "0", "1", "6">>,
     <<"z", "z", "z", "0", "0", "0", "5">>,
     <<"Z", "Z", "Z", "0", "0", "A", "6">>,
     <<"1", "2", "3", "A", "B", "C">>,
     <<"1", "2", "A", "B", "C">>,
     <<"N", "H", "I">>,
     <<"x">>}

NhiTexts == {JoinWith(<<" ">>, l) : l \in ListsUpTo(NhiTokens, MaxNhiTokens)}

InitNhi ==
    /\ recognizer = "NewZealandHealthNumberRecognizer"
    /\ pc = "start"
    /\ text \in NhiTexts
    /\ vocab = <<>>
    /\ entities = {"NZ_Health_Number"}
    /\ collected = <<>>
    /\ returned = <<>>
    /\ FilterIdle
    /\ CheckIdle

\* analyze: what was decided for each result, and the list handed back
AnalyzeNhi ==
    /\ pc = "start"
    /\ collected' = Nhi_analyze(text)
    /\ returned' = [k \in 1..Len(collected') |->
                       [entity_type |-> "NZ_Health_Number", start |-> collected'[k].start,
                        end |-> collected'[k].end, score |-> collected'[k].score]]
    /\ pc' = "returned"
    /\ UNCHANGED <<recognizer, text, vocab, entities, filterVars, checkVars>>

NextNhi == AnalyzeNhi

SpecNhi == InitNhi /\ [][NextNhi]_vars

\* ------------------------------------------------------------ claim C26
\* three letters other than I and O, then four digits, or two digits, a letter and a digit
IsNhiCandidate(number) ==
    /\ Len(number) = 7
    /\ \A i \in 1..3 : UpperChar(number[i]) \in NhiLetters
    /\ number[4] \in Digits /\ number[5] \in Digits /\ number[7] \in Digits
    /\ number[6] \in Digits \/ UpperChar(number[6]) \in NhiLetters

\* C26: analyze gives an NHI candidate, of the old and of the new format, the
\* score 0.7 before the context boost when its check digit is correct and 0.1
\* when it is not.
C26_NhiScoredByCheckDigit ==
    pc = "returned" =>
        \A k \in 1..Len(collected) :
            LET number == Slice(text, collected[k].start, collected[k].end)
            IN  IsNhiCandidate(number)
                => collected[k].base = IF is_valid_nhi_checksum(number) THEN 70 ELSE 10

\* ------------------------------------------------------------ claim C24
\* the categories a recognizer requires, and whether the text has a match of each;
\* the dictionary category is matched when the automaton gave a hit
RequiredCategories(r, tx, hits) ==
    CASE r = "LowThresholdHIPAARecognizer" ->
           <<Search(NUMBER_PATTERN, tx) \/ Search(SSN_PATTERN, tx),
             hits # <<>>,
             Search(NAME_PATTERN, tx),
             FindGroupFrom(DATE_PATTERN_prefix, DATE_PATTERN_group, tx, 0) # <<>>>>
      [] r = "HipaaRegRecognizer" ->
           <<hits # <<>>,
             Search(six_digit_pattern, tx) \/ Search(unformatted_ssn_pattern, tx)>>
      [] r = "HIPAAHITECHMEDIUMRecognizer" ->
           <<Search(patient_id_pattern, tx) \/ Search(ssn_pattern, tx) \/ Search(npi_pattern, tx),
             hits # <<>>>>
      [] OTHER -> <<>>

GatedRecognizers ==
    {"LowThresholdHIPAARecognizer", "HipaaRegRecognizer", "HIPAAHITECHMEDIUMRecognizer"}

MatchedSpans(matches) == {<<matches[k].start, matches[k].end>> : k \in 1..Len(matches)}

\* C25: analyze adds 0.2 (capped at 1.0) to the base context score only when
\* several valid cards were found: when all matches cover one and the same span
\* every result carries the base score, when they cover several spans every
\* result carries the boosted score, and all results of a call carry the same score.
C25_BoostOnlyForSeveralCards ==
    pc = "returned" /\ returned # <<>> =>
        LET base_score == calculate_score(text)
            expected == IF Cardinality(MatchedSpans(collected)) >= 2
                        THEN Min(100, base_score + 20) ELSE base_score
        IN  \A k \in 1..Len(returned) : returned[k].score = expected

\* ------------------------------------------------------------ USCorporateFinancialRecognizer
FINANCIAL_TERMS ==
    <<<<"a", "c", "c", "o", "u", "n", "t", "s", " ", "r", "e", "c", "e", "i", "v", "a", "b", "l", "e", " ", "t", "u", "r", "n", "o", "v", "e", "r">>,
      <<"a", "d", "j", "u", "s", "t", "e", "d", " ", "g", "r", "o", "s", "s", " ", "m", "a", "r", "g", "i", "n">>,
      <<"a", "d", "j", "u", "s", "t", "e", "d", " ", "o", "p", "e", "r", "a", "t", "i", "n", "g", " ", "e", "x", "p", "e", "n", "s", "e", "s">>,
      <<"a", "d", "j", "u", "s", "t", "e", "d", " ", "o", "p", "e", "r", "a", "t", "i", "n", "g", " ", "m", "a", "r", "g", "i", "n">>,
      <<"a", "d", "m", "i", "n", "i", "s", "t", "r", "a", "t", "i", "v", "e", " ", "e", "x", "p", "e", "n", "s", "e", "s">>,
      <<"c", "a", "p", "i", "t", "a", "l", " ", "e", "m", "p", "l", "o", "y", "e", "d", " ", "t", "u", "r", "n", "o", "v", "e", "r">>,
      <<"c", "o", "s", "t", " ", "o", "f", " ", "s", "a", "l", "e", "s">>,
      <<"e", "a", "r", "n", "i", "n", "g", "s", " ", "p", "e", "r", " ", "s", "h", "a", "r", "e">>,
      <<"e", "b", "i", "t", "d", "a">>,
      <<"e", "b", "i", "t">>,
      <<"n", "e", "t", " ", "p", "r", "o", "f", "i", "t">>,
      <<"f", "i", "n", "a", "n", "c", "i", "a", "l", " ", "e", "x", "p", "e", "n", "s", "e", "s">>,
      <<"f", "i", "n", "a", "n", "c", "i", "a", "l", " ", "l", "i", "a", "b", "i", "l", "i", "t", "i", "e", "s">>,
      <<"i", "n", "t", "e", "r", "e", "s", "t", " ", "e", "x", "p", "e", "n", "s", "e">>,
      <<"f", "i", "n", "a", "n", "c", "i", "a", "l", " ", "i", "n", "c", "o", "m", "e">>,
      <<"i", "n", "t", "e", "r", "e", "s", "t", " ", "i", "n", "c", "o", "m", "e">>,
      <<"f", "o", "r", "w", "a", "r", "d", " ", "g", "u", "i", "d", "a", "n", "c", "e">>,
      <<"e", "a", "r", "n", "i", "n", "g", "s", " ", "f", "o", "r", "e", "c", "a", "s", "t">>,
      <<"g", "r", "o", "s", "s", " ", "m", "a", "r", "g", "i", "n">>,
      <<"g", "r", "o", "s", "s", " ", "p", "r", "o", "f", "i", "t">>,
      <<"i", "n", "c", "o", "m", "e", " ", "b", "e", "f", "o", "r", "e", " ", "t", "a", "x", "e", "s">>,
      <<"p", "r", "e", "-", "t", "a", "x", " ", "i", "n", "c", "o", "m", "e">>,
      <<"i", "n", "v", "e", "n", "t", "o", "r", "y", " ", "t", "u", "r", "n", "o", "v", "e", "r">>,
      <<"i", "n", "v", "e", "n", "t", "o", "r", "y", " ", "r", "a", "t", "i", "o">>,
      <<"n", "e", "t", " ", "i", "n", "c", "o", "m", "e">>,
      <<"n", "e", "t", " ", "e", "a", "r", "n", "i", "n", "g", "s">>,
      <<"b", "o", "t", "t", "o", "m", " ", "l", "i", "n", "e">>,
      <<"n", "e", "t", " ", "r", "e", "v", "e", "n", "u", "e">>,
      <<"n", "e", "t", " ", "s", "a", "l", "e", "s">>,
      <<"o", "p", "e", "r", "a", "t", "i", "n", "g", " ", "e", "x", "p", "e", "n", "s", "e", "s">>,
      <<"o", "p", "e", "x">>,
      <<"o", "p", "e", "r", "a", "t", "i", "n", "g", " ", "i", "n", "c", "o", "m", "e">>,
      <<"o", "p", "e", "r", "a", "t", "i", "n", "g", " ", "p", "r", "o", "f", "i", "t">>,
      <<"o", "p", "e", "r", "a", "t", "i", "n", "g", " ", "m", "a", "r", "g", "i", "n">>,
      <<"m", "a", "r", "g", "i", "n", " ", "r", "a", "t", "i", "o">>,
      <<"r", "e", "t", "u", "r", "n", " ", "o", "n", " ", "c", "a", "p", "i", "t", "a", "l", " ", "e", "m", "p", "l", "o", "y", "e", "d">>,
      <<"r", "o", "c", "e">>,
      <<"r", "e", "t", "u", "r", "n", " ", "o", "n", " ", "a", "s", "s", "e", "t", "s">>,
      <<"r", "o", "a">>,
      <<"r", "e", "t", "u", "r", "n", " ", "o", "n", " ", "e", "q", "u", "i", "t", "y">>,
      <<"r", "o", "e">>,
      <<"r", "e", "t", "u", "r", "n", " ", "o", "n", " ", "s", "a", "l", "e", "s">>,
      <<"r", "o", "s">>,
      <<"s", "e", "l", "l", "i", "n", "g", " ", "e", "x", "p", "e", "n", "s", "e", "s">>,
      <<"s", "a", "l", "e", "s", " ", "c", "o", "s", "t">>,
      <<"n", "e", "t", " ", "i", "n", "t", "e", "r", "e", "s", "t", " ", "i", "n", "c", "o", "m", "e">>,
      <<"n", "i", "i">>,
      <<"l", "o", "a", "n", " ", "l", "o", "s", "s", " ", "p", "r", "o", "v", "i", "s", "i", "o", "n">>,
      <<"p", "r", "o", "v", "i", "s", "i", "o", "n", " ", "f", "o", "r", " ", "c", "r", "e", "d", "i", "t", " ", "l", "o", "s", "s", "e", "s">>,
      <<"n", "o", "n", "-", "p", "e", "r", "f", "o", "r", "m", "i", "n", "g", " ", "l", "o", "a", "n", "s">>,
      <<"n", "p", "l", "s">>,
      <<"t", "i", "e", "r", " ", "1", " ", "c", "a", "p", "i", "t", "a", "l">>,
      <<"c", "o", "m", "m", "o", "n", " ", "e", "q", "u", "i", "t", "y", " ", "t", "i", "e", "r", " ", "1">>,
      <<"c", "a", "p", "i", "t", "a", "l", " ", "a", "d", "e", "q", "u", "a", "c", "y", " ", "r", "a", "t", "i", "o">>,
      <<"n", "e", "t", " ", "i", "n", "t", "e", "r", "e", "s", "t", " ", "m", "a", "r", "g", "i", "n">>,
      <<"n", "i", "m">>,
      <<"a", "s", "s", "e", "t", "s", " ", "u", "n", "d", "e", "r", " ", "m", "a", "n", "a", "g", "e", "m", "e", "n", "t">>,
      <<"a", "u", "m">>,
      <<"b", "a", "s", "e", "l", " ", "i", "i", "i", " ", "c", "o", "m", "p", "l", "i", "a", "n", "c", "e">>,
      <<"b", "a", "s", "e", "l", " ", "r", "e", "q", "u", "i", "r", "e", "m", "e", "n", "t", "s">>,
      <<"r", "i", "s", "k", "-", "w", "e", "i", "g", "h", "t", "e", "d", " ", "a", "s", "s", "e", "t", "s">>,
      <<"r", "w", "a">>,
      <<"s", "t", "r", "e", "s", "s", " ", "t", "e", "s", "t", " ", "r", "e", "s", "u", "l", "t", "s">>,
      <<"d", "i", "v", "i", "d", "e", "n", "d", " ", "p", "a", "y", "o", "u", "t", " ", "r", "a", "t", "i", "o">>,
      <<"i", "n", "t", "e", "r", "e", "s", "t", " ", "c", "o", "v", "e", "r", "a", "g", "e", " ", "r", "a", "t", "i", "o">>,
      <<"d", "e", "b", "t", " ", "t", "o", " ", "e", "q", "u", "i", "t", "y", " ", "r", "a", "t", "i", "o">>,
      <<"c", "u", "r", "r", "e", "n", "t", " ", "r", "a", "t", "i", "o">>,
      <<"q", "u", "i", "c", "k", " ", "r", "a", "t", "i", "o">>,
      <<"c", "a", "s", "h", " ", "f", "l", "o", "w", " ", "f", "r", "o", "m", " ", "o", "p", "e", "r", "a", "t", "i", "o", "n", "s">>,
      <<"f", "r", "e", "e", " ", "c", "a", "s", "h", " ", "f", "l", "o", "w">>,
      <<"w", "o", "r", "k", "i", "n", "g", " ", "c", "a", "p", "i", "t", "a", "l">>,
      <<"c", "a", "p", "i", "t", "a", "l", " ", "e", "x", "p", "e", "n", "d", "i", "t", "u", "r", "e", "s">>,
      <<"b", "o", "o", "k", " ", "v", "a", "l", "u", "e", " ", "p", "e", "r", " ", "s", "h", "a", "r", "e">>,
      <<"m", "a", "r", "k", "e", "t", " ", "c", "a", "p", "i", "t", "a", "l", "i", "z", "a", "t", "i", "o", "n">>,
      <<"p", "r", "i", "c", "e", " ", "t", "o", " ", "e", "a", "r", "n", "i", "n", "g", "s", " ", "r", "a", "t", "i", "o">>,
      <<"p", "/", "e", " ", "r", "a", "t", "i", "o">>,
      <<"p", "r", "i", "c", "e", " ", "t", "o", " ", "b", "o", "o", "k", " ", "r", "a", "t", "i", "o">>,
      <<"p", "/", "b", " ", "r", "a", "t", "i", "o">>,
      <<"e", "n", "t", "e", "r", "p", "r", "i", "s", "e", " ", "v", "a", "l", "u", "e">>,
      <<"t", "o", "t", "a", "l", " ", "l", "i", "a", "b", "i", "l", "i", "t", "i", "e", "s">>,
      <<"s", "h", "a", "r", "e", "h", "o", "l", "d", "e", "r", " ", "e", "q", "u", "i", "t", "y">>,
      <<"r", "e", "v", "e", "n", "u", "e", " ", "g", "r", "o", "w", "t", "h">>,
      <<"p", "r", "o", "f", "i", "t", " ", "m", "a", "r", "g", "i", "n">>,
      <<"g", "r", "o", "s", "s", " ", "p", "r", "o", "f", "i", "t", " ", "m", "a", "r", "g", "i", "n">>,
      <<"o", "p", "e", "r", "a", "t", "i", "n", "g", " ", "c", "a", "s", "h", " ", "f", "l", "o", "w">>,
      <<"f", "i", "n", "a", "n", "c", "i", "a", "l", " ", "l", "e", "v", "e", "r", "a", "g", "e">>,
      <<"d", "e", "b", "t", " ", "r", "a", "t", "i", "o">>>>

SSN_REGEX ==
    Cat(<<WordBoundary, NotAhead(Alt(<<Lit(<<"0", "0", "0">>), Lit(<<"6", "6", "6">>),
          Cat(<<Lit(<<"9">>), Cls(Digits), Cls(Digits)>>)>>)), D(3), Opt(Cls({"-", " "})),
          NotAhead(Lit(<<"0", "0">>)), D(2), Opt(Cls({"-", " "})), NotAhead(Rep(Lit(<<"0">>),
          4, 4)), D(4), WordBoundary>>)

FEN_REGEX ==
    Cat(<<WordBoundary, NotAhead(Lit(<<"0", "0">>)), D(2), Opt(Cls({"-", " "})),
          NotAhead(Rep(Lit(<<"0">>), 7, 7)), D(7), WordBoundary>>)

INVALID_SSN_SET ==
    {<<"0", "7", "8", "0", "5", "1", "1", "2", "0">>,
     <<"1", "2", "3", "4", "5", "6", "7", "8", "9">>,
     <<"9", "8", "7", "6", "5", "4", "3", "2", "0">>}

INVALID_FEN_SET ==
    {<<"0", "0", "0", "0", "0", "0", "0", "0", "0">>,
     <<"1", "1", "2", "3", "4", "5", "6", "7", "8">>,
     <<"1", "2", "3", "4", "5", "6", "7", "8", "9">>}

\* the context the constructor sets
CorpCONTEXT ==
    <<<<"f", "i", "n", "a", "n", "c", "i", "a", "l", "s">>,
      <<"c", "o", "r", "p", "o", "r", "a", "t", "e">>,
      <<"s", "o", "x">>,
      <<"s", "a", "r", "b", "a", "n", "e", "s", "-", "o", "x", "l", "e", "y">>,
      <<"r", "e", "p", "o", "r", "t", "i", "n", "g">>,
      <<"b", "a", "l", "a", "n", "c", "e", " ", "s", "h", "e", "e", "t">>,
      <<"f", "i", "n", "a", "n", "c", "i", "a", "l", " ", "s", "t", "a", "t", "e", "m", "e", "n", "t">>,
      <<"a", "u", "d", "i", "t">>,
      <<"c", "o", "m", "p", "l", "i", "a", "n", "c", "e">>>>

\* re.sub(pattern, repl, s) for a repl that puts pre before and post after the
\* matched text: ms are the matches, p is where the copy of s has come to
RECURSIVE Wrapped(_, _, _, _, _)
Wrapped(s, ms, p, pre, post) ==
    IF ms = <<>> THEN Slice(s, p, Len(s))
    ELSE LET m == Head(ms)
         IN  Slice(s, p, m.start) \o pre \o Slice(s, m.start, m.end) \o post
             \o Wrapped(s, Tail(ms), m.end, pre, post)

\* text.lower(), then r" \$\1" for "$" and a number (the backslash of the
\* replacement stays), then r" \1 " for digits with hyphens
Normalized(tx) ==
    LET lowered == Lower(tx)
        dollars == Wrapped(lowered,
                       finditer(Cat(<<Lit(<<"$">>), Cat(<<Rep(Cls(Digits), 1, -1), Opt(Cat(<<Lit(<<".">>),
          Rep(Cls(Digits), 1, -1)>>))>>)>>), lowered),
                       0, <<" ", "\\">>, <<>>)
    IN  Wrapped(dollars,
            finditer(Cat(<<Rep(Cls(Digits), 1, -1), Lit(<<"-">>), Rep(Cls(Digits \cup {"-"}), 1, -1)>>), dollars),
            0, <<" ">>, <<" ">>)

\* USCorporateFinancialRecognizer._has_context(text, start, end), window = 80
Corp_has_context(tx, start, end) ==
    LoweredKeywordIn(CorpCONTEXT, Slice(tx, Max(0, start - 80), Min(Len(tx), end + 80)))

\* rf"\b{escaped_term}\b" under re.IGNORECASE, for each term
TermRegexes ==
    [t \in 1..Len(FINANCIAL_TERMS) |->
        Cat(<<WordBoundary, LitI(FINANCIAL_TERMS[t]), WordBoundary>>)]

\* one entry per match of term t in normalized_text; the span is the match's
TermMatches(t, tx, normalized_text) ==
    LET ms == finditer(TermRegexes[t], normalized_text)
    IN  [k \in 1..Len(ms) |->
            [start |-> ms[k].start, end |-> ms[k].end, term |-> FINANCIAL_TERMS[t],
             score |-> IF Corp_has_context(tx, ms[k].start, ms[k].end)
                       THEN Min(70 + 20, 100) ELSE 70]]

\* 1. the financial terms
TermEntries(tx) ==
    LET normalized_text == Normalized(tx)
    IN  Concat([t \in 1..Len(FINANCIAL_TERMS) |-> TermMatches(t, tx, normalized_text)])

is_valid_ssn(ssn) ==
    LET digits == OnlyDigits(ssn)
    IN  /\ Len(digits) = 9
        /\ digits \notin INVALID_SSN_SET
        /\ SubSeq(digits, 1, 3) \notin {<<"0", "0", "0">>, <<"6", "6", "6">>}
        /\ SubSeq(digits, 4, 5) # <<"0", "0">>
        /\ SubSeq(digits, 6, 9) # <<"0", "0", "0", "0">>

is_valid_fen(fen) ==
    LET digits == OnlyDigits(fen)
    IN  /\ Len(digits) = 9
        /\ digits \notin INVALID_FEN_SET
        /\ SubSeq(digits, 1, 2) # <<"0", "0">>
        /\ SubSeq(digits, 3, 9) # <<"0", "0", "0", "0", "0", "0", "0">>

\* 2. and 3.: the numbers, found in the text itself
NumberEntries(re, tx, valid(_)) ==
    LET ms == SelectSeq(finditer(re, tx), LAMBDA m : valid(Slice(tx, m.start, m.end)))
    IN  [k \in 1..Len(ms) |->
            [start |-> ms[k].start, end |-> ms[k].end,
             score |-> IF Corp_has_context(tx, ms[k].start, ms[k].end)
                       THEN Min(85 + 10, 100) ELSE 85]]

\* USCorporateFinancialRecognizer.analyze(text, entities): the entries of the
\* financial terms, and of the numbers
Corp_analyze(tx) ==
    IF Search(Cat(<<WordBoundary, LitI(<<"t", "e", "r", "m", "s">>), Rep(Cls(SpaceChars), 1, -1),
          LitI(<<"a", "n", "d">>), Rep(Cls(SpaceChars), 1, -1), LitI(<<"c", "o", "n", "d", "i",
          "t", "i", "o", "n", "s">>), WordBoundary>>), tx)
    THEN [terms |-> <<>>, numbers |-> <<>>]
    ELSE [terms |-> TermEntries(tx),
          numbers |-> NumberEntries(SSN_REGEX, tx, is_valid_ssn)
                      \o NumberEntries(FEN_REGEX, tx, is_valid_fen)]

MaxCorpTokens == 2

CorpTokens ==
    {<<"e", "b", "i", "t", "d", "a">>,
     <<"R", "O", "E">>,
     <<"n", "e", "t", " ", "p", "r", "o", "f", "i", "t">>,
     <<"$", "5">>,
     <<"1", "2", "-", "3", "4">>,
     <<"a", "u", "d", "i", "t">>,
     <<"2", "1", "2", "-", "4", "5", "-", "6", "7", "8", "9">>,
     <<"1", "2", "-", "3", "4", "5", "6", "7", "8", "9">>,
     <<"t", "e", "r", "m", "s", " ", "a", "n", "d", " ", "c", "o", "n", "d", "i", "t", "i", "o", "n", "s">>,
     <<"x">>}

CorpTexts == {JoinWith(<<" ">>, l) : l \in ListsUpTo(CorpTokens, MaxCorpTokens)}

InitCorp ==
    /\ recognizer = "USCorporateFinancialRecognizer"
    /\ pc = "start"
    /\ text \in CorpTexts
    /\ vocab = <<>>
    /\ entities = {"US_CORPORATE_FINANCIALS"}
    /\ collected = <<>>
    /\ returned = <<>>
    /\ FilterIdle
    /\ CheckIdle

\* analyze: collected keeps the term of each financial-term result
AnalyzeCorp ==
    /\ pc = "start"
    /\ LET out == Corp_analyze(text)
           all == out.terms \o out.numbers
       IN  /\ collected' = out.terms
           /\ returned' = [k \in 1..Len(all) |->
                              [entity_type |-> "US_CORPORATE_FINANCIALS", start |-> all[k].start,
                               end |-> all[k].end, score |-> all[k].score]]
    /\ pc' = "returned"
    /\ UNCHANGED <<recognizer, text, vocab, entities, filterVars, checkVars>>

NextCorp == AnalyzeCorp

SpecCorp == InitCorp /\ [][NextCorp]_vars

\* ------------------------------------------------------------ claim C28
\* C28: every financial-term result refers to the original text: 0 <= start <
\* end <= len(text), and text[start:end].lower() is the matched term, also when
\* "$" and a number or digits with hyphens come before the term.
C28_TermSpansInOriginalText ==
    pc = "returned" =>
        \A k \in 1..Len(collected) :
            /\ 0 <= collected[k].start
            /\ collected[k].start < collected[k].end
            /\ collected[k].end <= Len(text)
            /\ Lower(Slice(text, collected[k].start, collected[k].end)) = collected[k].term

\* ------------------------------------------------------------ ItFiscalCodeRecognizer
\* dict.get(key, default) over a table of <<key, value>> pairs
DictGet(items, key, default) ==
    IF \E i \in 1..Len(items) : items[i][1] = key
        THEN items[CHOOSE i \in 1..Len(items) : items[i][1] = key][2]
        ELSE default

map_odd_items ==
    <<<<"0", 1>>, <<"1", 0>>, <<"2", 5>>, <<"3", 7>>, <<"4", 9>>, <<"5", 13>>,
      <<"6", 15>>, <<"7", 17>>, <<"8", 19>>, <<"9", 21>>, <<"A", 1>>, <<"B", 0>>,
      <<"C", 5>>, <<"D", 7>>, <<"E", 9>>, <<"F", 13>>, <<"G", 15>>, <<"H", 17>>,
      <<"I", 19>>, <<"J", 21>>, <<"K", 2>>, <<"L", 4>>, <<"M", 18>>, <<"N", 20>>,
      <<"O", 11>>, <<"P", 3>>, <<"Q", 6>>, <<"R", 8>>, <<"S", 12>>, <<"T", 14>>,
      <<"U", 16>>, <<"V", 10>>, <<"W", 22>>, <<"X", 25>>, <<"Y", 24>>, <<"Z", 23>>>>

map_even_items ==
    <<<<"0", 0>>, <<"1", 1>>, <<"2", 2>>, <<"3", 3>>, <<"4", 4>>, <<"5", 5>>,
      <<"6", 6>>, <<"7", 7>>, <<"8", 8>>, <<"9", 9>>, <<"A", 0>>, <<"B", 1>>,
      <<"C", 2>>, <<"D", 3>>, <<"E", 4>>, <<"F", 5>>, <<"G", 6>>, <<"H", 7>>,
      <<"I", 8>>, <<"J", 9>>, <<"K", 10>>, <<"L", 11>>, <<"M", 12>>, <<"N", 13>>,
      <<"O", 14>>, <<"P", 15>>, <<"Q", 16>>, <<"R", 17>>, <<"S", 18>>, <<"T", 19>>,
      <<"U", 20>>, <<"V", 21>>, <<"W", 22>>, <<"X", 23>>, <<"Y", 24>>, <<"Z", 25>>>>

map_mod_items ==
    <<<<0, "A">>, <<1, "B">>, <<2, "C">>, <<3, "D">>, <<4, "E">>, <<5, "F">>,
      <<6, "G">>, <<7, "H">>, <<8, "I">>, <<9, "J">>, <<10, "K">>, <<11, "L">>,
      <<12, "M">>, <<13, "N">>, <<14, "O">>, <<15, "P">>, <<16, "Q">>, <<17, "R">>,
      <<18, "S">>, <<19, "T">>, <<20, "U">>, <<21, "V">>, <<22, "W">>, <<23, "X">>,
      <<24, "Y">>, <<25, "Z">>>>

\* a table in which the odd values of A and B are exchanged
map_odd_exchanged(char) ==
    IF char = "A" THEN 0
    ELSE IF char = "B" THEN 1
    ELSE DictGet(map_odd_items, char, 0)

\* map_odd.get(char, 0)
map_odd(char) == DictGet(map_odd_items, char, 0)

\* map_even.get(char, 0)
map_even(char) == DictGet(map_even_items, char, 0)

\* map_mod.get(remainder)
map_mod(n) == DictGet(map_mod_items, n, "None")

\* ItFiscalCodeRecognizer.validate_result(pattern_text)
ItFiscal_validate_result(pattern_text) ==
    LET stripped == Strip(Upper(pattern_text))
    IN  IF Len(stripped) # 16 THEN FALSE
        ELSE LET control_char == stripped[16]
                 text_to_validate == SubSeq(stripped, 1, 15)
                 odd_sum == SumSeq([i \in 1..15 |->
                                IF i % 2 = 1 THEN map_odd(text_to_validate[i]) ELSE 0])
                 even_sum == SumSeq([i \in 1..15 |->
                                 IF i % 2 = 1 THEN 0 ELSE map_even(text_to_validate[i])])
                 total == odd_sum + even_sum
                 remainder_ == total % 26
             IN  map_mod(remainder_) = control_char

\* ------------------------------------------------------------ the two validators called
FiscalBases ==
    {<<"R", "S", "S", "M", "R", "A", "8", "5", "T", "1", "0", "A", "5", "6", "2", "S">>,
     <<"M", "R", "T", "M", "T", "T", "9", "1", "D", "0", "8", "F", "2", "0", "5", "J">>}

\* strings of another length
FiscalOther ==
    {<<>>,
     <<"R", "S", "S", "M", "R", "A", "8", "5", "T", "1", "0", "A", "5", "6", "2">>,
     <<"R", "S", "S", "M", "R", "A", "8", "5", "T", "1", "0", "A", "5", "6", "2", "S", "S">>,
     <<"A">>}

FiscalChars == UpperLetters \cup Digits

\* code with the character at place i (from 1) replaced by c
WithChar(code, i, c) == [code EXCEPT ![i] = c]

\* the codes: a base with every character at its first place (odd), its second
\* place (even) and its place of control
FiscalCodes ==
    FiscalOther \cup
    {WithChar(WithChar(WithChar(b, 1, x), 2, y), 16, z) :
        b \in FiscalBases, x \in FiscalChars, y \in FiscalChars, z \in FiscalChars}

InitFiscal ==
    /\ recognizer = "ItalyFiscalCodeRecognizer, ItFiscalCodeRecognizer"
    /\ pc = [validate_checksum |-> "start", validate_result |-> "start"]
    /\ candidate \in FiscalCodes
    /\ verdicts = [validate_checksum |-> FALSE, validate_result |-> FALSE]
    /\ idx = 0
    /\ remainder = 0
    /\ FilterIdle
    /\ AnalyzeIdle

FiscalFrame == UNCHANGED <<recognizer, candidate, idx, remainder, filterVars, analyzeVars>>

\* ItalyFiscalCodeRecognizer()._validate_checksum(candidate)
CallItalyValidateChecksum ==
    /\ pc.validate_checksum = "start"
    /\ pc' = [pc EXCEPT !.validate_checksum = "done"]
    /\ verdicts' = [verdicts EXCEPT !.validate_checksum = Italy_validate_checksum(candidate)]
    /\ FiscalFrame

\* ItFiscalCodeRecognizer().validate_result(candidate)
CallItFiscalValidateResult ==
    /\ pc.validate_result = "start"
    /\ pc' = [pc EXCEPT !.validate_result = "done"]
    /\ verdicts' = [verdicts EXCEPT !.validate_result = ItFiscal_validate_result(candidate)]
    /\ FiscalFrame

NextFiscal == CallItalyValidateChecksum \/ CallItFiscalValidateResult

SpecFiscal == InitFiscal /\ [][NextFiscal]_vars

\* ------------------------------------------------------------ claim C29
BothCalled == pc.validate_checksum = "done" /\ pc.validate_result = "done"

\* C29: the two implementations of the fiscal-code checksum give the same answer
\* for every string of 16 characters over A-Z and 0-9, and both give False for a
\* string of another length.
C29_ChecksumsAgree ==
    BothCalled =>
        /\ verdicts.validate_checksum = verdicts.validate_result
        /\ Len(candidate) # 16 =>
              verdicts.validate_checksum = FALSE /\ verdicts.validate_result = FALSE

\* a code with A at its first place and a digit at its second, accepted by both
C29_Witness ==
    /\ BothCalled
    /\ Len(candidate) = 16
    /\ candidate[1] = "A"
    /\ candidate[2] \in Digits
    /\ verdicts.validate_checksum = TRUE
    /\ verdicts.validate_result = TRUE

\* ------------------------------------------------------------ claim C30
\* account_iter and bsb_iter of AustraliaBankAccountRecognizer.analyze
AustraliaAccountMatches(tx) == finditer(Cat(<<WordBoundary, Rep(Cls(Digits), 6, 10), WordBoundary>>), tx)

AustraliaBsbMatches(tx) == finditer(Cat(<<WordBoundary, D(3), Opt(Cls({"-", " "})), D(3), WordBoundary>>), tx)

\* the span analyze reports for an account match and a BSB match
PairSpan(acc, bsb) == <<Min(acc.start, bsb.start), Max(acc.end, bsb.end)>>

\* the result comes from an account match and a BSB match that are two matches
FromTwoMatches(tx, result) ==
    \E a \in 1..Len(AustraliaAccountMatches(tx)), b \in 1..Len(AustraliaBsbMatches(tx)) :
        LET acc == AustraliaAccountMatches(tx)[a]
            bsb == AustraliaBsbMatches(tx)[b]
        IN  /\ <<acc.start, acc.end>> # <<bsb.start, bsb.end>>
            /\ PairSpan(acc, bsb) = <<result.start, result.end>>

\* C30: every result of AustraliaBankAccountRecognizer.analyze pairs an account
\* match with a BSB match that is a different match (one digit run that matches
\* both patterns gives no result), and each (start, end) span is reported at most
\* once.
C30_PairsOfDifferentMatches ==
    pc = "returned" /\ recognizer = "AustraliaBankAccountRecognizer" =>
        /\ \A k \in 1..Len(returned) : FromTwoMatches(text, returned[k])
        /\ \A j, k \in 1..Len(returned) :
              <<returned[j].start, returned[j].end>> = <<returned[k].start, returned[k].end>>
                  => j = k

====
